---- MODULE Spec2Model ----
(***************************************************************************)
(* Catalog Extraction Engine (parser_costex): Stage 4 of the pipeline      *)
(* (run_stage4_with_variants), the Detail Navigator                        *)
(* (open_detail_update_qty_and_collect), the Payload Normalizer            *)
(* (normalize_price_rows), the Checkpoint Store (_jsonl_append and        *)
(* _jsonl_load) and the Deduplicator (dedupe_results).                      *)
(*                                                                         *)
(* Text is a sequence of one-character strings, so that str.strip() and    *)
(* str.split() are computed, not assumed.  A Python dict is a function     *)
(* whose DOMAIN is the set of keys present.                                *)
(***************************************************************************)
EXTENDS Integers, Sequences, FiniteSets, TLC

VARIABLES
  csv,          \* Products_ALL.csv: the rows read by iter_parts_from_csv
  limit,        \* limit_parts_detail (NoLimit for None)
  resume,       \* RESUME_STAGE4, as read by run_stage4_with_variants
  clear,        \* CLEAR_STAGE4, as read by run_full_pipeline
  log,          \* stage4_partial.jsonl: the records of the checkpoint log
  pc,           \* position of run_stage4_with_variants
  variantIdx,   \* index of the session variant being attempted
  maxAttempts,  \* LOGIN_MAX_ATTEMPTS read for this variant (0: no limit)
  loginAttempt, \* login_with_retries: attempt
  browserOpen,  \* a browser session is open
  orphan,       \* a browser was launched and never closed: its handle was lost
  idx,          \* position of the per-identifier loop in the work queue
  processed,    \* processed: set of references already recorded
  results,      \* results: rows kept in memory by the attempt
  new_rows,     \* new_rows of the last normalize_price_rows call
  last_err,     \* last_err: the exception that ended the last failed variant
  err,          \* the exception in flight ("" when none)
  returned,     \* the value returned by run_stage4_with_variants
  npc,          \* position inside open_detail_update_qty_and_collect
  calls,        \* the calls made by the current navigator invocation, in order
  price_data,   \* the record returned by the navigator
  where,        \* the page the session is on: form, detail or specs
  navInfo,      \* how the last navigator invocation resolved
  attemptLog0,  \* the log as it was when the current attempt computed processed
  submitted,    \* identifiers submitted by the current attempt
  extractCount, \* per identifier: successful extractions since the log was cleared
  extractedNow, \* records returned by the navigator to the current attempt
  appendedNow,  \* the identifiers whose rows the current attempt appended, in order
  fnIn,         \* input of the pure function under check
  fnOut,        \* its result
  subcats,      \* subcategories.csv: the rows read by run_from_input_csv
  seconds,      \* seconds: the extension of the listening window
  row_i,        \* run_from_input_csv: position in the rows of the input
  sniffVariant, \* log_network_with_variants: index of the variant tried
  responses,    \* log_network: the payloads of the responses captured
  products,     \* the value returned by log_network for the current listing
  waits         \* waits on the listening window made for the current listing

vars == << orphan, csv, limit, resume, clear, log, pc, variantIdx, maxAttempts, loginAttempt,
           browserOpen, idx, processed, results, new_rows, last_err, err,
           returned, npc, calls, price_data, where, navInfo,
           attemptLog0, submitted, extractCount, extractedNow, appendedNow, fnIn, fnOut,
           subcats, seconds, row_i, sniffVariant, responses, products, waits >>

-----------------------------------------------------------------------------
(* Bounds of the model *)

MaxRows == 2
MaxLoc == 2
LoginCap == 2
MaxDedupe == 3

-----------------------------------------------------------------------------
(* Text *)

Sp == " "
A == <<"A">>
B == <<"B">>
Tokens == {A, B}

RECURSIVE LStrip(_)
LStrip(s) == IF s # <<>> /\ Head(s) = Sp THEN LStrip(Tail(s)) ELSE s

RECURSIVE RStrip(_)
RStrip(s) == IF s # <<>> /\ s[Len(s)] = Sp THEN RStrip(SubSeq(s, 1, Len(s) - 1)) ELSE s

\* str.strip()
Strip(s) == RStrip(LStrip(s))

RECURSIVE SplitFirst(_, _)
\* s.split(sep, 1)[0]
SplitFirst(s, sep) ==
  IF s = <<>> \/ Head(s) = sep THEN <<>> ELSE <<Head(s)>> \o SplitFirst(Tail(s), sep)

RECURSIVE RemoveChar(_, _)
\* s.replace(c, "")
RemoveChar(s, c) ==
  IF s = <<>> THEN <<>>
  ELSE IF Head(s) = c THEN RemoveChar(Tail(s), c)
  ELSE <<Head(s)>> \o RemoveChar(Tail(s), c)

Digits == {"0", "1", "2", "3", "4", "5", "6", "7", "8", "9"}

DigitVal(c) ==
  CASE c = "0" -> 0 [] c = "1" -> 1 [] c = "2" -> 2 [] c = "3" -> 3 [] c = "4" -> 4
    [] c = "5" -> 5 [] c = "6" -> 6 [] c = "7" -> 7 [] c = "8" -> 8 [] c = "9" -> 9

RECURSIVE DigitRun(_)
\* the maximal run of digits at the head of s
DigitRun(s) ==
  IF s # <<>> /\ Head(s) \in Digits THEN <<Head(s)>> \o DigitRun(Tail(s)) ELSE <<>>

RECURSIVE DigitsValue(_, _)
DigitsValue(ds, acc) ==
  IF ds = <<>> THEN acc ELSE DigitsValue(Tail(ds), 10 * acc + DigitVal(Head(ds)))

-----------------------------------------------------------------------------
(* Dicts *)

EmptyDict == [k \in {} |-> 0]

\* {**a, **b}
Merge(a, b) ==
  [k \in (DOMAIN a) \cup (DOMAIN b) |-> IF k \in DOMAIN b THEN b[k] ELSE a[k]]

\* {k: v for k, v in d.items() if k not in ks}
Without(d, ks) == [k \in (DOMAIN d) \ ks |-> d[k]]

\* (d.get(k) or ""), for a text-valued key
TextOr(d, k) == IF k \in DOMAIN d THEN d[k] ELSE <<>>

\* d.get(k) is truthy, for a text-valued key
HasText(d, k) == k \in DOMAIN d /\ d[k] # <<>>

\* limit=None of iter_parts_from_csv
NoLimit == -1

RECURSIVE Pow10(_)
Pow10(k) == IF k = 0 THEN 1 ELSE 10 * Pow10(k - 1)

-----------------------------------------------------------------------------
(* Stage 4 helpers: main.py *)

\* One row of Products_ALL.csv as csv.DictReader gives it.
CsvRow(cell) ==
  [category_url |-> <<"c">>, subcategory_name |-> <<"s">>,
   subcategory_url |-> <<"u">>, PART_NO |-> cell]

RECURSIVE IterParts(_, _, _)
\* The loop of iter_parts_from_csv: rows left, limit, count.
IterParts(rows, lim, count) ==
  IF rows = <<>> THEN <<>>
  ELSE LET row == Head(rows)
           part_no == Strip(TextOr(row, "PART_NO"))
           item == [category_url |-> Strip(TextOr(row, "category_url")),
                    subcategory_name |-> Strip(TextOr(row, "subcategory_name")),
                    subcategory_url |-> Strip(TextOr(row, "subcategory_url")),
                    part_no |-> part_no]
       IN IF part_no = <<>> THEN IterParts(Tail(rows), lim, count)
          ELSE <<item>> \o (IF lim # NoLimit /\ count + 1 >= lim
                            THEN <<>>
                            ELSE IterParts(Tail(rows), lim, count + 1))

\* list(iter_parts_from_csv(csv_path, limit))
iter_parts_from_csv(rows, lim) == IterParts(rows, lim, 0)

\* The match of r"(-?\d+(\.\d+)?)" at the head of s (a digit), with its sign:
\* the number as n / 10^scale.
MoneyAt(s, sign) ==
  LET ip == DigitRun(s)
      rest == SubSeq(s, Len(ip) + 1, Len(s))
      fp == IF rest # <<>> /\ Head(rest) = "." THEN DigitRun(Tail(rest)) ELSE <<>>
  IN [n |-> sign * DigitsValue(ip \o fp, 0), scale |-> Len(fp)]

RECURSIVE MoneySearch(_)
\* re.search: the leftmost match, <<>> when there is none
MoneySearch(s) ==
  IF s = <<>> THEN <<>>
  ELSE IF Head(s) \in Digits THEN <<MoneyAt(s, 1)>>
  ELSE IF Head(s) = "-" /\ Len(s) >= 2 /\ s[2] \in Digits THEN <<MoneyAt(Tail(s), -1)>>
  ELSE MoneySearch(Tail(s))

\* a parser that takes a text without a number for zero
money_to_float_or_zero(s) ==
  IF s = <<>> \/ MoneySearch(RemoveChar(s, ",")) = <<>>
  THEN <<[n |-> 0, scale |-> 0]>> ELSE MoneySearch(RemoveChar(s, ","))

\* _money_to_float: <<>> for None, <<[n, scale]>> for the float n / 10^scale
money_to_float(s) == IF s = <<>> THEN <<>> ELSE MoneySearch(RemoveChar(s, ","))

\* a rounding that drops what is below the cent
RoundCentsTruncated(num, den) == (100 * num) \div den

\* round(x, 2) of x = num / den (den > 0), in cents; ties to even
RoundCents(num, den) ==
  LET q == (100 * num) \div den
      r == (100 * num) % den
  IN IF 2 * r > den \/ (2 * r = den /\ q % 2 = 1) THEN q + 1 ELSE q

\* int(v) of a quantity held as an int; <<>> when the key is absent
IntOf(d, k) == IF k \in DOMAIN d THEN <<d[k]>> ELSE <<>>

\* _calc_totals; the totals are kept in cents
calc_totals(row) ==
  LET r1 == IF "Requested Qty" \notin DOMAIN row \/ row["Requested Qty"] = 0
            THEN Merge(row, "Requested Qty" :> 9999) ELSE row
      unit_price == money_to_float(TextOr(r1, "Unit Price"))
      req_qty_i == IntOf(r1, "Requested Qty")
      qty_av_i == IntOf(r1, "Qty Available")
      r2 == IF unit_price # <<>> /\ req_qty_i # <<>>
            THEN Merge(r1, "Total Price (Requested)" :>
                   RoundCents(unit_price[1].n * req_qty_i[1], Pow10(unit_price[1].scale)))
            ELSE r1
  IN IF unit_price # <<>> /\ qty_av_i # <<>>
     THEN Merge(r2, "Total Price (Available)" :>
            RoundCents(unit_price[1].n * qty_av_i[1], Pow10(unit_price[1].scale)))
     ELSE r2

\* for r in price_data["rows"]: out.append(_calc_totals({**base, **r}))
ModalRows(base, rows) == [i \in 1..Len(rows) |-> calc_totals(Merge(base, rows[i]))]

\* part_from_detail = (price_data.get("Part No") or price_data.get("part_no") or "").strip()
part_from_detail(pd) ==
  Strip(IF HasText(pd, "Part No") THEN pd["Part No"] ELSE TextOr(pd, "part_no"))

\* a base reference taken from the detail source alone
base_part_no_detail_only(item, pd) == part_from_detail(pd)

\* base["part_no"] = part_from_detail if part_from_detail else item.get("part_no", "")
base_part_no(item, pd) ==
  IF part_from_detail(pd) # <<>> THEN part_from_detail(pd) ELSE item.part_no

\* a normalizer that returns the rows of the sub-records and nothing else
ModalResultNoBase(out, base) == out

\* return out or [_calc_totals({**base})]
ModalResult(out, base) == IF out # <<>> THEN out ELSE <<calc_totals(base)>>

\* a normalizer in which the submitted identifier always wins
normalize_price_rows_submitted_wins(item, pd) ==
  LET base == [category_url |-> item.category_url,
               subcategory_url |-> item.subcategory_url,
               Category |-> item.subcategory_name,
               Categories |-> item.subcategory_name,
               part_no |-> item.part_no]
              @@ ("Requested Qty" :> 9999)
  IN <<calc_totals(Merge(base, Without(pd, {"rows", "mode", "Part No", "part_no"})))>>

\* normalize_price_rows
normalize_price_rows(item, pd) ==
  LET base == [category_url |-> item.category_url,
               subcategory_url |-> item.subcategory_url,
               Category |-> item.subcategory_name,
               Categories |-> item.subcategory_name,
               part_no |-> base_part_no(item, pd)]
              @@ ("Requested Qty" :> 9999)
  IN IF "mode" \in DOMAIN pd /\ pd["mode"] = "modal"
     THEN ModalResult(ModalRows(base, IF "rows" \in DOMAIN pd THEN pd["rows"] ELSE <<>>),
                      base)
     ELSE <<calc_totals(Merge(base, Without(pd, {"rows", "mode", "Part No"})))>>

-----------------------------------------------------------------------------
(* Checkpoint Store: main.py.  The file is the sequence of the pieces of    *)
(* text written to it.  A piece of kind "object" is json.dumps(r) + "\n";  *)
(* "blank", "invalid" and "value" are a line of white space, a line that   *)
(* is no JSON and a line holding a JSON value that is no object, each with *)
(* its "\n"; "cut" is what a write that was interrupted left of the text   *)
(* of r, with no "\n": all of json.dumps(r) when whole, a part otherwise.  *)

JsonLine(r) == [t |-> "object", v |-> r]

CutLine(r, whole) == [t |-> "cut", v |-> r, whole |-> whole]

\* an append that does not reach the file
jsonl_append_lost(file, rows) == file

\* _jsonl_append
jsonl_append(file, rows) ==
  IF rows = <<>> THEN file ELSE file \o [i \in 1..Len(rows) |-> JsonLine(rows[i])]

RECURSIVE jsonl_load(_)
\* _jsonl_load: `for line in f` ends a line at "\n", so a piece with no "\n"
\* is one line with the piece after it; the objects of the lines, in file
\* order.  A text followed by the text of an object is no JSON.
jsonl_load(file) ==
  IF file = <<>> THEN <<>>
  ELSE IF Head(file).t = "cut"
  THEN IF Len(file) = 1 \/ file[2].t = "blank"
       THEN (IF Head(file).whole THEN <<Head(file).v>> ELSE <<>>)
            \o jsonl_load(SubSeq(file, 3, Len(file)))
       ELSE IF file[2].t = "cut"
       THEN jsonl_load(<<CutLine(file[2].v, FALSE)>> \o SubSeq(file, 3, Len(file)))
       ELSE jsonl_load(SubSeq(file, 3, Len(file)))
  ELSE (IF Head(file).t = "object" THEN <<Head(file).v>> ELSE <<>>)
       \o jsonl_load(Tail(file))

\* _jsonl_processed_partnos
jsonl_processed_partnos(file) ==
  LET rs == jsonl_load(file)
  IN {Strip(TextOr(rs[i], "part_no")) : i \in 1..Len(rs)} \ {<<>>}

-----------------------------------------------------------------------------
(* Deduplicator: write.py *)

\* the key of dedupe_results; <<>> as location stands for None
DedupeKey(r) == <<Strip(TextOr(r, "part_no")), Strip(TextOr(r, "Location"))>>

RECURSIVE DedupeFoldFirstWins(_, _, _)
\* a loop that keeps the first record of a key
DedupeFoldFirstWins(rows, keys, seen) ==
  IF rows = <<>> THEN [i \in 1..Len(keys) |-> seen[keys[i]]]
  ELSE LET k == DedupeKey(Head(rows))
       IN DedupeFoldFirstWins(Tail(rows),
                              IF k \in DOMAIN seen THEN keys ELSE Append(keys, k),
                              IF k \in DOMAIN seen THEN seen ELSE Merge(seen, k :> Head(rows)))

RECURSIVE DedupeFoldRawKey(_, _, _)
\* a loop whose key is the reference as it stands, not trimmed
DedupeFoldRawKey(rows, keys, seen) ==
  IF rows = <<>> THEN [i \in 1..Len(keys) |-> seen[keys[i]]]
  ELSE LET k == <<TextOr(Head(rows), "part_no"), Strip(TextOr(Head(rows), "Location"))>>
       IN DedupeFoldRawKey(Tail(rows),
                           IF k \in DOMAIN seen THEN keys ELSE Append(keys, k),
                           Merge(seen, k :> Head(rows)))

RECURSIVE DedupeFold(_, _, _)
\* the loop of dedupe_results: seen is the dict, keys its insertion order
DedupeFold(rows, keys, seen) ==
  IF rows = <<>> THEN [i \in 1..Len(keys) |-> seen[keys[i]]]
  ELSE LET k == DedupeKey(Head(rows))
       IN DedupeFold(Tail(rows),
                     IF k \in DOMAIN seen THEN keys ELSE Append(keys, k),
                     Merge(seen, k :> Head(rows)))

\* dedupe_results
dedupe_results(rows) == DedupeFold(rows, <<>>, EmptyDict)

-----------------------------------------------------------------------------
(* The remote site, as the navigator reads it *)

\* variants of run_full_pipeline: stealth, basic, ... ; attempted in order
NumVariants == 2

\* PART_NO cells of Products_ALL.csv: identifiers, and a blank cell
CsvCells == Tokens \cup {<<Sp>>}

RECURSIVE SeqsUpTo(_, _)
\* the sequences over S of length at most n
SeqsUpTo(S, n) ==
  IF n = 0 THEN {<<>>}
  ELSE LET shorter == SeqsUpTo(S, n - 1)
       IN shorter \cup {Append(q, x) : q \in {r \in shorter : Len(r) = n - 1}, x \in S}

\* _count_parts(products_csv)
count_parts(rows) ==
  Cardinality({i \in 1..Len(rows) : Strip(TextOr(rows[i], "PART_NO")) # <<>>})

\* the id attribute of a.delete-single-part: "<part_no>|<...>", or none
DeleteIds == {<<>>, <<"A", "|", "1">>, <<Sp, "B", "|", "1">>}

\* the text of the second cell of the "Part No." row; NoCell: no such row
NoCell == <<"#">>
PartCells == {NoCell, <<Sp>>, <<"A", Sp>>, <<"B">>}

\* the unit price and the quantity the site shows for an item
PriceText == <<"$", "1", "2", ".", "5", "0">>
QtyText == <<"4">>

\* the quantity the detail view shows for the quantity requested by the form,
\* before the update of the quantity is invoked
QtyBefore == <<"1">>

\* the quantity the page shows after the calls of trace
QtyShown(trace) ==
  IF \E i \in 1..Len(trace) : trace[i] = "click_update_qty" THEN QtyText ELSE QtyBefore

\* the desktop-view location table of the overlay, with n rows: the cells of
\* row i; cell 1 is the location, cell 3 the unit price, cell 5 the quantity
LocationTable(n) ==
  [i \in 1..n |-> << <<"L", IF i = 1 THEN "1" ELSE "2">>, <<>>, PriceText, <<>>, QtyText >>]

-----------------------------------------------------------------------------
(* Detail Navigator: deteil_product.py *)

\* _extract_part_no_from_delete_id
extract_part_no_from_delete_id(raw_id) ==
  IF Strip(raw_id) = <<>> THEN <<>> ELSE Strip(SplitFirst(Strip(raw_id), "|"))

\* the th/th rows of a specifications table: k -> inner_text().strip()
ParseThRows(cell) ==
  IF cell = NoCell THEN ("Description" :> <<"d">>)
  ELSE ("Part No." :> Strip(cell)) @@ ("Description" :> <<"d">>)

\* extract_from_part_details_page (the fields kept by the model)
extract_from_part_details_page(cell) ==
  LET raw == ParseThRows(cell)
      part_no == IF HasText(raw, "Part No.") THEN raw["Part No."] ELSE TextOr(raw, "Part No")
      o1 == IF part_no # <<>> THEN [part_no |-> part_no] ELSE EmptyDict
  IN IF HasText(raw, "Description") THEN Merge(o1, [Title |-> raw["Description"]]) ELSE o1

\* _normalize_specs (the fields kept by the model)
normalize_specs(raw) ==
  LET part_no == IF HasText(raw, "Part No.") THEN raw["Part No."]
                 ELSE IF HasText(raw, "Part No") THEN raw["Part No"]
                 ELSE TextOr(raw, "Part Number")
      o1 == IF part_no # <<>> THEN [part_no |-> Strip(part_no)] ELSE EmptyDict
  IN IF HasText(raw, "Description")
     THEN Merge(o1, [Title |-> Strip(raw["Description"])]) ELSE o1

RECURSIVE first_int(_)
\* _first_int: the first run of digits of s, <<>> for None
first_int(s) ==
  IF s = <<>> THEN <<>>
  ELSE IF Head(s) \in Digits THEN <<DigitsValue(DigitRun(s), 0)>>
  ELSE first_int(Tail(s))

\* extract_product_meta_from_detail (the fields kept by the model)
extract_product_meta_from_detail(raw_id, shown) ==
  LET part_no == extract_part_no_from_delete_id(raw_id)
      m1 == [Title |-> <<"t">>]
      m2 == IF part_no # <<>> THEN Merge(m1, [part_no |-> part_no]) ELSE m1
      qa == first_int(shown)
  IN Merge(m2, "Qty Available" :> IF qa # <<>> THEN qa[1] ELSE 0)

\* extract_quote_table_and_qty_from_detail_view
extract_quote_table_and_qty_from_detail_view(shown) ==
  LET qa == first_int(shown)
      o1 == ("Unit Price" :> Strip(PriceText))
  IN IF qa # <<>> THEN Merge(o1, "Qty Available" :> qa[1]) ELSE o1

\* _extract_unit_price_from_modal_locations: cell 3 of the first row
extract_unit_price_from_modal_locations(tbl) ==
  IF tbl = <<>> THEN <<>> ELSE Strip(tbl[1][3])

\* _extract_qty_available_from_modal_locations: cell 5 of the first row, when
\* it is all digits; <<>> for None
extract_qty_available_from_modal_locations(tbl) ==
  IF tbl = <<>> THEN <<>>
  ELSE LET av == Strip(tbl[1][5])
       IN IF av # <<>> /\ DigitRun(av) = av THEN <<DigitsValue(av, 0)>> ELSE <<>>

\* the record built by _parse_modal_close_delete from the open overlay
ParseModal(cell, tbl) ==
  LET out == normalize_specs(ParseThRows(cell))
      unit_price == extract_unit_price_from_modal_locations(tbl)
      o1 == IF unit_price # <<>> THEN Merge(out, "Unit Price" :> unit_price) ELSE out
      qa == extract_qty_available_from_modal_locations(tbl)
  IN IF qa # <<>> THEN Merge(o1, "Qty Available" :> qa[1]) ELSE o1

\* a merge in which the live metadata wins over the snapshot and the
\* specifications page
InlineRecordLiveWins(meta, pre_more, details_norm) ==
  Merge(Merge(details_norm, pre_more), Merge(meta, "Requested Qty" :> 9999))

\* out = {**meta, **pre_more, **details_norm}
InlineRecord(meta, pre_more, details_norm) ==
  Merge(Merge(Merge(meta, "Requested Qty" :> 9999), pre_more), details_norm)

-----------------------------------------------------------------------------
(* Stage 4: run_stage4_with_variants *)

\* the work queue: iter_parts_from_csv(str(products_csv), limit=limit_parts_detail)
Queue == iter_parts_from_csv(csv, limit)

ZeroCount == [t \in Tokens |-> 0]

Bump(f, t) == [f EXCEPT ![t] = @ + 1]

NavIdle == [mode |-> "none", nloc |-> 0]

\* the log an earlier run left: nothing, or the rows of the first identifier
\* of the queue, extracted from an inline panel that asserted no identifier
PriorLogs(queue) ==
  {<<>>, jsonl_append(<<>>, normalize_price_rows(queue[1],
                              extract_quote_table_and_qty_from_detail_view(QtyText)))}

Init ==
  /\ csv \in {r \in SeqsUpTo({CsvRow(c) : c \in CsvCells}, MaxRows) : count_parts(r) > 0}
  /\ limit \in {NoLimit, 1}
  /\ resume \in BOOLEAN
  /\ clear \in BOOLEAN
  /\ log \in PriorLogs(Queue)
  /\ pc = "start"
  /\ variantIdx = 1
  /\ maxAttempts = 0
  /\ loginAttempt = 0
  /\ browserOpen = FALSE
  /\ orphan = FALSE
  /\ idx = 1
  /\ processed = {}
  /\ results = <<>>
  /\ new_rows = <<>>
  /\ last_err = ""
  /\ err = ""
  /\ returned = <<>>
  /\ npc = "idle"
  /\ calls = <<>>
  /\ price_data = EmptyDict
  /\ where = "closed"
  /\ navInfo = NavIdle
  /\ attemptLog0 = <<>>
  /\ submitted = {}
  /\ extractCount = [t \in Tokens |->
                       IF log # <<>> /\ t = Queue[1].part_no THEN 1 ELSE 0]
  /\ extractedNow = 0
  /\ appendedNow = <<>>
  /\ fnIn = <<>>
  /\ fnOut = <<>>
  /\ subcats = <<>>
  /\ seconds = 0
  /\ row_i = 1
  /\ sniffVariant = 1
  /\ responses = <<>>
  /\ products = <<>>
  /\ waits = 0

cfgVars == << csv, limit, resume, clear >>
fnVars == << fnIn, fnOut >>
sniffVars == << subcats, seconds, row_i, sniffVariant, responses, products, waits >>
navVars == << npc, calls, price_data, where, navInfo >>
ghostVars == << attemptLog0, submitted, extractCount, extractedNow, appendedNow >>

\* a start that removes the partial log only when CLEAR_STAGE4 is set
ClearsPartialOnlyOnClear(clear_env, resume_env) == clear_env

\* main.py:665-676: partial_path.unlink under CLEAR_STAGE4, else under
\* RESUME_STAGE4 off
ClearsPartial(clear_env, resume_env) ==
  IF clear_env THEN TRUE ELSE IF ~resume_env THEN TRUE ELSE FALSE

\* run_full_pipeline, main.py:662-684: the partial log is removed when
\* CLEAR_STAGE4 is set or RESUME_STAGE4 is off; then Stage 4 is called
StartStage4 ==
  /\ pc = "start"
  /\ LET cleared == ClearsPartial(clear, resume)
     IN /\ log' = IF cleared THEN <<>> ELSE log
        /\ extractCount' = IF cleared THEN ZeroCount ELSE extractCount
  /\ pc' = "variant"
  /\ variantIdx' = 1
  /\ last_err' = ""
  /\ UNCHANGED << cfgVars, fnVars, sniffVars, orphan, navVars, maxAttempts, loginAttempt, browserOpen,
                  idx, processed, results, new_rows, err, returned, attemptLog0,
                  submitted, extractedNow, appendedNow >>

\* for variant in variants: results = []; LOGIN_MAX_ATTEMPTS is read
StartVariant ==
  /\ pc = "variant"
  /\ variantIdx <= NumVariants
  /\ results' = <<>>
  /\ \E m \in {0, 2} : maxAttempts' = m
  /\ loginAttempt' = 0
  /\ pc' = "login"
  /\ UNCHANGED << cfgVars, fnVars, sniffVars, orphan, navVars, ghostVars, log, variantIdx, browserOpen,
                  idx, processed, new_rows, last_err, err, returned >>

\* the exceptions of a session: the login and the way to the entry form
SessionErrors == {"login_failed", "goto_failed"}

\* the exceptions of one identifier: a wait of fill_price_inquiry_form or of
\* open_detail_update_qty_and_collect that timed out
ItemTimeouts == {"form_timeout", "no_detail_button", "no_state_after_detailView",
                 "no_qty_input", "cannot_click_update_qty", "modal_not_open",
                 "return_to_quote_failed"}

\* what last_err keeps of an exception
ErrClass(kind) == IF kind \in SessionErrors THEN "session" ELSE "item"

\* an exception leaves the try block of the variant
Raise(kind) ==
  /\ pc' = "exc"
  /\ err' = kind
  /\ npc' = "idle"

\* one iteration of the loop of login_with_retries.  The outcomes: the login
\* is confirmed; it is not confirmed, or raises with the browser at hand, and
\* the browser is closed; create_browser_and_page raises after
\* chromium.launch, so that `browser` is still None and nothing is closed.
\* With max_attempts = 0 the loop has no bound of its own and attempt is not
\* compared with anything: the model counts it modulo LoginCap.
LoginAttempt ==
  /\ pc = "login"
  /\ \E outcome \in {"ok", "not_confirmed", "no_context"} :
       IF outcome = "ok"
       THEN /\ browserOpen' = TRUE
            /\ loginAttempt' = 0
            /\ maxAttempts' = 0
            /\ pc' = "goto"
            /\ UNCHANGED << err, npc, orphan >>
       ELSE /\ browserOpen' = FALSE
            /\ orphan' = (orphan \/ outcome = "no_context")
            /\ IF maxAttempts # 0 /\ loginAttempt + 1 >= maxAttempts
               THEN /\ Raise("login_failed")
                    /\ loginAttempt' = 0
                    /\ maxAttempts' = 0
               ELSE /\ loginAttempt' = (loginAttempt + 1) % LoginCap
                    /\ UNCHANGED << pc, err, npc, maxAttempts >>
  /\ UNCHANGED << cfgVars, fnVars, sniffVars, ghostVars, log, variantIdx, idx, processed, results,
                  new_rows, last_err, returned, calls, price_data, where,
                  navInfo >>

\* go_to_price_inquiry(page); processed = _jsonl_processed_partnos(...) if resume
GoToPriceInquiry ==
  /\ pc = "goto"
  /\ \E ok \in BOOLEAN :
       IF ok
       THEN /\ processed' = IF resume THEN jsonl_processed_partnos(log) ELSE {}
            /\ attemptLog0' = log
            /\ submitted' = {}
            /\ extractedNow' = 0
            /\ appendedNow' = <<>>
            /\ idx' = 1
            /\ where' = "form"
            /\ pc' = "loop"
            /\ UNCHANGED << err, npc >>
       ELSE /\ Raise("goto_failed")
            /\ UNCHANGED << processed, attemptLog0, submitted, extractedNow, appendedNow,
                         idx, where >>
  /\ UNCHANGED << cfgVars, fnVars, sniffVars, orphan, log, variantIdx, maxAttempts, loginAttempt,
                  browserOpen, results, new_rows, last_err, returned, calls,
                  price_data, navInfo, extractCount >>

\* a resume check that never finds the identifier
AlreadyProcessedNever(part_no) == FALSE

\* if resume and part_no in processed
AlreadyProcessed(part_no) == resume /\ part_no \in processed

\* if resume and part_no in processed: continue
LoopSkip ==
  /\ pc = "loop"
  /\ idx <= Len(Queue)
  /\ AlreadyProcessed(Queue[idx].part_no)
  /\ idx' = idx + 1
  /\ UNCHANGED << cfgVars, fnVars, sniffVars, orphan, navVars, ghostVars, log, pc, variantIdx, maxAttempts,
                  loginAttempt, browserOpen, processed, results, new_rows, last_err,
                  err, returned >>

\* fill_price_inquiry_form(page, part_number=part_no): the entry form is reached
\* and the identifier submitted, or a wait for the form times out
FillForm ==
  /\ pc = "loop"
  /\ idx <= Len(Queue)
  /\ ~AlreadyProcessed(Queue[idx].part_no)
  /\ \E ok \in BOOLEAN :
       IF ok
       THEN /\ submitted' = submitted \cup {Queue[idx].part_no}
            /\ where' = "form"
            /\ pc' = "nav"
            /\ npc' = "entry"
            /\ UNCHANGED err
       ELSE /\ Raise("form_timeout")
            /\ UNCHANGED << submitted, where >>
  /\ calls' = <<>>
  /\ price_data' = EmptyDict
  /\ navInfo' = NavIdle
  /\ new_rows' = <<>>
  /\ UNCHANGED << cfgVars, fnVars, sniffVars, orphan, log, variantIdx, maxAttempts, loginAttempt,
                  browserOpen, idx, processed, results, last_err, returned,
                  attemptLog0, extractCount, extractedNow, appendedNow >>

-----------------------------------------------------------------------------
(* open_detail_update_qty_and_collect, step by step.  Each wait of the code  *)
(* is answered by the remote site: the answer is chosen here.               *)

Dismiss == <<"close_modal_if_present", "close_fancybox_if_present">>

\* return_to_quote_page; delete_current_item; close_modal_if_present;
\* close_fancybox_if_present: the calls made when the return succeeded
CleanupCalls(back) ==
  IF back THEN <<"return_to_quote_page", "delete_current_item">> \o Dismiss
  ELSE <<"return_to_quote_page">>

stage4Frame == << cfgVars, fnVars, sniffVars, orphan, log, variantIdx, maxAttempts, loginAttempt,
                  browserOpen, idx, processed, results, new_rows, last_err,
                  returned, attemptLog0, submitted, appendedNow >>

\* the navigator returns `out` to the loop of Stage 4
NavReturn(out, mode, n) ==
  /\ price_data' = out
  /\ navInfo' = [mode |-> mode, nloc |-> n]
  /\ extractCount' = Bump(extractCount, Queue[idx].part_no)
  /\ extractedNow' = extractedNow + 1
  /\ where' = "form"
  /\ pc' = "collected"
  /\ npc' = "idle"
  /\ UNCHANGED err

\* lines 504-506 and 646-648: dismiss what is open; the early overlay check
NavEntry ==
  /\ pc = "nav" /\ npc = "entry"
  /\ calls' = Dismiss \o <<"wait_modal_open">>
  /\ \E modal \in BOOLEAN : npc' = IF modal THEN "modal" ELSE "detail"
  /\ UNCHANGED << stage4Frame, pc, err, price_data, where, navInfo, extractCount,
                  extractedNow >>

\* lines 653-679: the detail control, the convergence wait, the second
\* overlay check
NavDetailView ==
  /\ pc = "nav" /\ npc = "detail"
  /\ \E answer \in {"no_button", "no_state", "modal", "qty"} :
       CASE answer = "no_button" ->
              /\ calls' = calls \o Dismiss
              /\ Raise("no_detail_button")
              /\ UNCHANGED where
         [] answer = "no_state" ->
              /\ calls' = calls \o Dismiss \o <<"detailView", "wait_detail_or_modal">>
              /\ Raise("no_state_after_detailView")
              /\ where' = "detail"
         [] OTHER ->
              /\ calls' = calls \o Dismiss
                            \o <<"detailView", "wait_detail_or_modal", "wait_modal_open">>
              /\ npc' = IF answer = "modal" THEN "modal" ELSE "qty"
              /\ where' = "detail"
              /\ UNCHANGED << pc, err >>
  /\ UNCHANGED << stage4Frame, price_data, navInfo, extractCount, extractedNow >>

\* a navigator that reads the detail view without updating the quantity
NavQtyUpdateSkipped ==
  /\ pc = "nav" /\ npc = "qty"
  /\ calls' = calls \o <<"wait_modal_open">>
  /\ npc' = "inline"
  /\ UNCHANGED << pc, err, stage4Frame, price_data, where, navInfo, extractCount,
                  extractedNow >>

\* a navigator that goes on to the inline extraction after the update of the
\* quantity without looking for the overlay
NavQtyUpdateNoOverlayCheck ==
  /\ pc = "nav" /\ npc = "qty"
  /\ calls' = calls \o <<"fill_qty_9999", "click_update_qty">>
  /\ npc' = "inline"
  /\ UNCHANGED << pc, err, stage4Frame, price_data, where, navInfo, extractCount,
                  extractedNow >>

\* lines 684-732: the quantity field set to 9999, the update control, the
\* third overlay check
NavQtyUpdate ==
  /\ pc = "nav" /\ npc = "qty"
  /\ \E answer \in {"no_qty", "no_click", "modal", "inline"} :
       CASE answer = "no_qty" ->
              /\ calls' = calls
              /\ Raise("no_qty_input")
         [] answer = "no_click" ->
              /\ calls' = calls \o <<"fill_qty_9999">>
              /\ Raise("cannot_click_update_qty")
         [] OTHER ->
              /\ calls' = calls \o <<"fill_qty_9999", "click_update_qty", "wait_modal_open">>
              /\ npc' = IF answer = "modal" THEN "modal" ELSE "inline"
              /\ UNCHANGED << pc, err >>
  /\ UNCHANGED << stage4Frame, price_data, where, navInfo, extractCount,
                  extractedNow >>

\* an overlay branch that returns the record whether or not the entry form
\* was reached
NavParseModalReturnsRegardless ==
  /\ pc = "nav" /\ npc = "modal"
  /\ \E open \in BOOLEAN, back \in BOOLEAN, n \in 0..MaxLoc, cell \in PartCells :
       IF ~open
       THEN /\ calls' = calls \o <<"wait_modal_open">>
            /\ Raise("modal_not_open")
            /\ UNCHANGED << price_data, navInfo, extractCount, extractedNow, where >>
       ELSE /\ calls' = calls \o <<"wait_modal_open", "parse_modal", "_close_modal">>
                          \o CleanupCalls(back)
            /\ price_data' = ParseModal(cell, LocationTable(n))
            /\ navInfo' = [mode |-> "overlay", nloc |-> n]
            /\ extractCount' = Bump(extractCount, Queue[idx].part_no)
            /\ extractedNow' = extractedNow + 1
            /\ where' = IF back THEN "form" ELSE where
            /\ pc' = "collected"
            /\ npc' = "idle"
            /\ UNCHANGED err
  /\ UNCHANGED stage4Frame

\* _parse_modal_close_delete, lines 612-641
NavParseModal ==
  /\ pc = "nav" /\ npc = "modal"
  /\ \E open \in BOOLEAN, back \in BOOLEAN, n \in 0..MaxLoc, cell \in PartCells :
       IF ~open
       THEN /\ calls' = calls \o <<"wait_modal_open">>
            /\ Raise("modal_not_open")
            /\ UNCHANGED << price_data, navInfo, extractCount, extractedNow, where >>
       ELSE IF ~back
       THEN /\ calls' = calls \o <<"wait_modal_open", "parse_modal", "_close_modal">>
                          \o CleanupCalls(FALSE)
            /\ Raise("return_to_quote_failed")
            /\ UNCHANGED << price_data, navInfo, extractCount, extractedNow, where >>
       ELSE /\ calls' = calls \o <<"wait_modal_open", "parse_modal", "_close_modal">>
                          \o CleanupCalls(TRUE)
            /\ NavReturn(ParseModal(cell, LocationTable(n)), "overlay", n)
  /\ UNCHANGED stage4Frame

\* the calls of the loop `for attempt in range(1, 4)`: reached is the attempt
\* whose wait_for_url succeeded, 0 when none did
MoreDetailsCalls(reached) ==
  [i \in 1..(IF reached = 0 THEN 3 ELSE reached) |-> "click_more_details"]

\* a navigator that fails the identifier when the specifications page was not
\* reached
NavInlineSpecsRequired ==
  /\ pc = "nav" /\ npc = "inline"
  /\ \E reached \in 0..3, onSpecs \in BOOLEAN, raw_id \in DeleteIds,
        cell \in PartCells :
       /\ reached > 0 => onSpecs
       /\ LET pre_more == extract_quote_table_and_qty_from_detail_view(QtyShown(calls))
              meta == extract_product_meta_from_detail(raw_id, QtyShown(calls))
              trace == calls \o <<"extract_quote_table_and_qty_from_detail_view">>
                         \o MoreDetailsCalls(reached)
          IN IF onSpecs
             THEN /\ calls' = trace \o <<"extract_from_part_details_page",
                                          "extract_product_meta_from_detail">>
                                    \o CleanupCalls(TRUE)
                  /\ NavReturn(InlineRecord(meta, pre_more,
                                            extract_from_part_details_page(cell)),
                               "inline", 0)
             ELSE /\ calls' = trace
                  /\ Raise("more_details_not_opened")
                  /\ UNCHANGED << price_data, navInfo, extractCount, extractedNow, where >>
  /\ UNCHANGED stage4Frame

\* lines 735-776: the inline extraction, the merge and the cleanup
NavInline ==
  /\ pc = "nav" /\ npc = "inline"
  /\ \E reached \in 0..3, onSpecs \in BOOLEAN, raw_id \in DeleteIds,
        cell \in PartCells, back \in BOOLEAN :
       /\ reached > 0 => onSpecs
       /\ LET pre_more == extract_quote_table_and_qty_from_detail_view(QtyShown(calls))
              details_norm == IF onSpecs THEN extract_from_part_details_page(cell)
                              ELSE EmptyDict
              meta == extract_product_meta_from_detail(raw_id, QtyShown(calls))
              trace == calls \o <<"extract_quote_table_and_qty_from_detail_view">>
                         \o MoreDetailsCalls(reached)
                         \o (IF onSpecs THEN <<"extract_from_part_details_page">> ELSE <<>>)
                         \o <<"extract_product_meta_from_detail">>
          IN IF back
             THEN /\ calls' = trace \o CleanupCalls(TRUE)
                  /\ NavReturn(InlineRecord(meta, pre_more, details_norm), "inline", 0)
             ELSE /\ calls' = trace \o CleanupCalls(FALSE)
                  /\ Raise("return_to_quote_failed")
                  /\ where' = IF onSpecs THEN "specs" ELSE "detail"
                  /\ UNCHANGED << price_data, navInfo, extractCount, extractedNow >>
  /\ UNCHANGED stage4Frame

-----------------------------------------------------------------------------
(* The rest of the per-identifier loop and the end of a variant *)

\* new_rows = normalize_price_rows(item, price_data); results.extend(new_rows);
\* _jsonl_append(partial_path, new_rows); processed.add(part_no)
AppendRows ==
  /\ pc = "collected"
  /\ LET rows == normalize_price_rows(Queue[idx], price_data)
     IN /\ new_rows' = rows
        /\ results' = results \o rows
        /\ log' = jsonl_append(log, rows)
  /\ processed' = processed \cup {Queue[idx].part_no}
  /\ idx' = idx + 1
  /\ pc' = "loop"
  /\ calls' = <<>>
  /\ appendedNow' = Append(appendedNow, Queue[idx].part_no)
  /\ UNCHANGED << cfgVars, fnVars, sniffVars, orphan, attemptLog0, submitted, extractCount, extractedNow,
                  variantIdx, maxAttempts, loginAttempt, browserOpen, last_err, err,
                  returned, npc, price_data, where, navInfo >>

\* an end of the loop that returns the rows held in memory
LoopEndReturnsResults ==
  /\ pc = "loop"
  /\ idx > Len(Queue)
  /\ browserOpen' = FALSE
  /\ orphan' = FALSE
  /\ returned' = results
  /\ pc' = "done"
  /\ where' = "closed"
  /\ UNCHANGED << cfgVars, fnVars, sniffVars, ghostVars, log, variantIdx, maxAttempts,
                  loginAttempt, idx, processed, results, new_rows, last_err, err,
                  npc, calls, price_data, navInfo >>

\* the queue is exhausted: browser.close(); return _jsonl_load(...) or results
LoopEnd ==
  /\ pc = "loop"
  /\ idx > Len(Queue)
  /\ browserOpen' = FALSE
  /\ orphan' = FALSE
  /\ returned' = LET all_rows == jsonl_load(log)
                 IN IF all_rows # <<>> THEN all_rows ELSE results
  /\ pc' = "done"
  /\ where' = "closed"
  /\ UNCHANGED << cfgVars, fnVars, sniffVars, ghostVars, log, variantIdx, maxAttempts,
                  loginAttempt, idx, processed, results, new_rows, last_err, err,
                  npc, calls, price_data, navInfo >>

\* a handler of the failed variant that starts the log afresh
StageExceptClearsLog ==
  /\ pc = "exc"
  /\ last_err' = ErrClass(err)
  /\ err' = ""
  /\ browserOpen' = FALSE
  /\ orphan' = FALSE
  /\ variantIdx' = variantIdx + 1
  /\ pc' = "variant"
  /\ idx' = 1
  /\ processed' = {}
  /\ results' = <<>>
  /\ new_rows' = <<>>
  /\ calls' = <<>>
  /\ price_data' = EmptyDict
  /\ navInfo' = NavIdle
  /\ where' = "closed"
  /\ submitted' = {}
  /\ extractedNow' = 0
  /\ appendedNow' = <<>>
  /\ log' = <<>>
  /\ UNCHANGED << cfgVars, fnVars, sniffVars, maxAttempts, loginAttempt, returned, npc,
                  attemptLog0, extractCount >>

\* except Exception as e: last_err = e; the browser is closed; next variant.
\* The locals of the failed attempt are dead from here on.
StageExcept ==
  /\ pc = "exc"
  /\ last_err' = ErrClass(err)
  /\ err' = ""
  /\ browserOpen' = FALSE
  /\ orphan' = FALSE
  /\ variantIdx' = variantIdx + 1
  /\ pc' = "variant"
  /\ idx' = 1
  /\ processed' = {}
  /\ results' = <<>>
  /\ new_rows' = <<>>
  /\ calls' = <<>>
  /\ price_data' = EmptyDict
  /\ navInfo' = NavIdle
  /\ where' = "closed"
  /\ submitted' = {}
  /\ extractedNow' = 0
  /\ appendedNow' = <<>>
  /\ UNCHANGED << cfgVars, fnVars, sniffVars, log, maxAttempts, loginAttempt, returned, npc,
                  attemptLog0, extractCount >>

\* raise RuntimeError("Stage 4 failed for all variants")
AllVariantsFailed ==
  /\ pc = "variant"
  /\ variantIdx > NumVariants
  /\ pc' = "failed"
  /\ UNCHANGED << cfgVars, fnVars, sniffVars, orphan, navVars, ghostVars, log, variantIdx, maxAttempts,
                  loginAttempt, browserOpen, idx, processed, results, new_rows,
                  last_err, err, returned >>

Next ==
  \/ StartStage4
  \/ StartVariant
  \/ LoginAttempt
  \/ GoToPriceInquiry
  \/ LoopSkip
  \/ FillForm
  \/ NavEntry
  \/ NavDetailView
  \/ NavQtyUpdate
  \/ NavParseModal
  \/ NavInline
  \/ AppendRows
  \/ LoopEnd
  \/ StageExcept
  \/ AllVariantsFailed

Spec == Init /\ [][Next]_vars

-----------------------------------------------------------------------------
(* dedupe_results and normalize_price_rows as functions of their arguments  *)

\* the pipeline at rest while a function is applied on its own
SniffAtRest ==
  /\ subcats = <<>>
  /\ seconds = 0
  /\ row_i = 1
  /\ sniffVariant = 1
  /\ responses = <<>>
  /\ products = <<>>
  /\ waits = 0

Stage4AtRest ==
  /\ orphan = FALSE
  /\ resume = TRUE
  /\ clear = FALSE
  /\ log = <<>>
  /\ variantIdx = 1
  /\ maxAttempts = 0
  /\ loginAttempt = 0
  /\ idx = 1
  /\ processed = {}
  /\ results = <<>>
  /\ new_rows = <<>>
  /\ returned = <<>>
  /\ npc = "idle"
  /\ calls = <<>>
  /\ price_data = EmptyDict
  /\ where = "closed"
  /\ navInfo = NavIdle
  /\ attemptLog0 = <<>>
  /\ submitted = {}
  /\ extractCount = ZeroCount
  /\ extractedNow = 0
  /\ appendedNow = <<>>

Idle ==
  /\ csv = <<CsvRow(A)>>
  /\ limit = NoLimit
  /\ browserOpen = FALSE
  /\ last_err = ""
  /\ err = ""
  /\ Stage4AtRest
  /\ SniffAtRest

pipelineVars == << orphan, cfgVars, navVars, ghostVars, log, variantIdx, maxAttempts,
                   loginAttempt, browserOpen, idx, processed, results, new_rows,
                   last_err, err, returned, sniffVars >>

\* a dict with the key k for each value of vs, and the dict without the key
Optional(k, vs) == {EmptyDict} \cup {k :> v : v \in vs}

\* rows as the log holds them: the reference with and without padding, the
\* location absent, blank or present, and a price telling the rows apart
DedupeRows ==
  {Merge(Merge(p, l), u) :
     p \in Optional("part_no", {A, <<Sp, "A">>, B}) \ {EmptyDict},
     l \in Optional("Location", {<<"L">>, <<Sp>>}),
     u \in Optional("Unit Price", {<<"1">>, <<"2">>}) \ {EmptyDict}}

InitDedupe ==
  /\ Idle
  /\ pc = "fn"
  /\ fnIn \in SeqsUpTo(DedupeRows, MaxDedupe)
  /\ fnOut = <<>>

\* rows = dedupe_results(rows), main.py:687
ApplyDedupe ==
  /\ pc = "fn"
  /\ fnOut' = dedupe_results(fnIn)
  /\ pc' = "fn_done"
  /\ UNCHANGED << pipelineVars, fnIn >>

NextDedupe == ApplyDedupe

SpecDedupe == InitDedupe /\ [][NextDedupe]_vars

\* a per-location sub-record of an overlay extraction: location label, unit
\* price and available quantity
SubRecord(i) ==
  [Location |-> <<"L", IF i = 1 THEN "1" ELSE IF i = 2 THEN "2" ELSE "3">>]
    @@ ("Unit Price" :> PriceText) @@ ("Qty Available" :> 4)

\* the price_data handed to normalize_price_rows: with and without a mode,
\* sub-records, an asserted reference under either key, a unit price
PriceDatas ==
  {Merge(Merge(Merge(Merge(m, r), p), q), u) :
     m \in Optional("mode", {"modal", "detail_view"}),
     r \in Optional("rows", {[i \in 1..n |-> SubRecord(i)] : n \in 0..MaxLoc}),
     p \in Optional("part_no", {<<Sp>>, A, B}),
     q \in Optional("Part No", {<<"B", Sp>>}),
     u \in Optional("Unit Price", {PriceText})}

InitNormalize ==
  /\ Idle
  /\ pc = "fn"
  /\ fnIn \in {<<iter_parts_from_csv(<<CsvRow(c)>>, NoLimit)[1], pd>> :
                 c \in Tokens, pd \in PriceDatas}
  /\ fnOut = <<>>

\* new_rows = normalize_price_rows(item, price_data), main.py:545
ApplyNormalize ==
  /\ pc = "fn"
  /\ fnOut' = normalize_price_rows(fnIn[1], fnIn[2])
  /\ pc' = "fn_done"
  /\ UNCHANGED << pipelineVars, fnIn >>

NextNormalize == ApplyNormalize

SpecNormalize == InitNormalize /\ [][NextNormalize]_vars

-----------------------------------------------------------------------------
(* Properties *)

Range(s) == {s[i] : i \in 1..Len(s)}

\* the exceptions that leave open_detail_update_qty_and_collect
NavigatorErrors == ItemTimeouts \ {"form_timeout"}

\* an attempt of Stage 4 is inside or just past its per-identifier loop
InAttempt == pc \in {"loop", "nav", "collected", "done"}

\* C1: when fill_price_inquiry_form or open_detail_update_qty_and_collect
\* times out for one identifier, the step that handles the exception skips
\* only that identifier: the same attempt, with its session open, goes on to
\* the next identifier of the work queue.
C1_TimeoutSkipsOnlyTheIdentifier ==
  [][(pc = "exc" /\ err \in ItemTimeouts)
       => (pc' = "loop" /\ idx' = idx + 1 /\ variantIdx' = variantIdx /\ browserOpen')]_vars

\* C2: whenever control has left open_detail_update_qty_and_collect, by a
\* return or by an exception, the function has attempted the overlay
\* dismissal, delete_current_item and return_to_quote_page.
C2_EveryTerminalPathCleansUp ==
  (pc = "collected" \/ (pc = "exc" /\ err \in NavigatorErrors))
    => {"close_modal_if_present", "delete_current_item", "return_to_quote_page"}
         \subseteq Range(calls)

C4_ExtractedAtMostOnce ==
  resume => \A t \in Tokens : extractCount[t] <= 1

\* C5: inside an attempt the log is what it was at the start followed by the
\* rows of every identifier normalized so far, and every record the
\* navigator returned has its rows in the log, except the one record that
\* is between extraction and append.
C5_AtMostOneUnlogged ==
  InAttempt =>
    /\ log = attemptLog0 \o [i \in 1..Len(results) |-> JsonLine(results[i])]
    /\ Len(jsonl_load(log)) - Len(jsonl_load(attemptLog0))
         >= extractedNow - (IF pc = "collected" THEN 1 ELSE 0)
    /\ (pc = "nav") => Len(appendedNow) = extractedNow

\* C5 witness: a second record is extracted and not yet appended while the
\* rows of the first are in the log
C5_Witness ==
  /\ pc = "collected" /\ extractedNow = 2
  /\ Len(log) = Len(attemptLog0) + 1

\* the positions of the input of dedupe_results holding the key k
KeyPositions(rows, k) == {i \in 1..Len(rows) : DedupeKey(rows[i]) = k}

Last(S) == CHOOSE i \in S : \A j \in S : j <= i

\* C6: the output of dedupe_results holds, for every key of the input,
\* exactly one record, the last of the input with that key, and no record
\* with any other key.
C6_DedupeKeepsLast ==
  pc = "fn_done" =>
    /\ \A i \in 1..Len(fnIn) :
         LET k == DedupeKey(fnIn[i])
         IN /\ Cardinality(KeyPositions(fnOut, k)) = 1
            /\ fnOut[Last(KeyPositions(fnOut, k))] = fnIn[Last(KeyPositions(fnIn, k))]
    /\ \A j \in 1..Len(fnOut) : KeyPositions(fnIn, DedupeKey(fnOut[j])) # {}

\* C6 witness: two different records of the input share a key, a third has
\* another key, and the later of the two is in the output
C6_Witness ==
  /\ pc = "fn_done" /\ Len(fnIn) = 3 /\ Len(fnOut) = 2
  /\ DedupeKey(fnIn[1]) = DedupeKey(fnIn[3])
  /\ fnIn[1] # fnIn[3]
  /\ fnIn[3] \in Range(fnOut)

\* C7: after an extraction from an overlay whose location table had N >= 1
\* rows, the rows normalized from it are N, all with one reference.
C7_OneRowPerLocation ==
  (pc \in {"loop", "done"} /\ new_rows # <<>> /\ navInfo.mode = "overlay"
     /\ navInfo.nloc >= 1)
    => /\ Len(new_rows) = navInfo.nloc
       /\ \A i \in 1..Len(new_rows) : new_rows[i].part_no = new_rows[1].part_no

\* price_data.get("mode") == "modal"
IsModal(pd) == "mode" \in DOMAIN pd /\ pd["mode"] = "modal"

\* price_data.get("rows") or []
SubRecords(pd) == IF "rows" \in DOMAIN pd THEN pd["rows"] ELSE <<>>

\* C8: normalize_price_rows returns one row when price_data is not in mode
\* 'modal'; in mode 'modal' one row per sub-record, or one base row when
\* there is no sub-record; never no row, and all rows with one reference.
C8_AtLeastOneRow ==
  pc = "fn_done" =>
    LET pd == fnIn[2]
    IN /\ Len(fnOut) >= 1
       /\ ~IsModal(pd) => Len(fnOut) = 1
       /\ IsModal(pd) =>
            Len(fnOut) = IF SubRecords(pd) = <<>> THEN 1 ELSE Len(SubRecords(pd))
       /\ \A i \in 1..Len(fnOut) : fnOut[i].part_no = fnOut[1].part_no

\* C8 witness: a call in mode 'modal' with two sub-records returned two rows,
\* one per location
C8_Witness ==
  /\ pc = "fn_done" /\ IsModal(fnIn[2]) /\ Len(SubRecords(fnIn[2])) = 2
  /\ Len(fnOut) = 2
  /\ fnOut[1].Location # fnOut[2].Location

\* C9: every row normalized in the pipeline, and every record of the log,
\* has a reference that is not empty and not blank.
C9_ReferenceNeverEmpty ==
  /\ \A i \in 1..Len(new_rows) : Strip(TextOr(new_rows[i], "part_no")) # <<>>
  /\ \A i \in 1..Len(log) :
       log[i].t = "object" => Strip(TextOr(log[i].v, "part_no")) # <<>>

\* C9 witness: the navigator returned a record asserting no reference, and
\* the row appended for it carries the submitted identifier
C9_Witness ==
  /\ pc = "loop" /\ new_rows # <<>> /\ appendedNow # <<>>
  /\ "part_no" \notin DOMAIN price_data
  /\ new_rows[1].part_no = appendedNow[Len(appendedNow)]
  /\ log[Len(log)] = JsonLine(new_rows[1])

\* what the detail source asserts as the identifier: 'Part No', else 'part_no'
Asserted(pd) == IF HasText(pd, "Part No") THEN pd["Part No"] ELSE TextOr(pd, "part_no")

\* C10: the reference of every row normalized for an extracted item is the
\* identifier the detail source asserted when it asserted one, and the
\* submitted identifier otherwise.
C10_ReferenceIsAssertedOrSubmitted ==
  (pc \in {"loop", "done"} /\ new_rows # <<>> /\ appendedNow # <<>>) =>
    \A i \in 1..Len(new_rows) :
      new_rows[i].part_no = IF Asserted(price_data) # <<>> THEN Asserted(price_data)
                            ELSE appendedNow[Len(appendedNow)]

\* C10 witness: the detail source asserted an identifier other than the one
\* submitted, and the row carries the asserted one
C10_Witness ==
  /\ pc = "loop" /\ new_rows # <<>> /\ appendedNow # <<>>
  /\ Asserted(price_data) # <<>>
  /\ Asserted(price_data) # appendedNow[Len(appendedNow)]
  /\ new_rows[1].part_no = Asserted(price_data)

-----------------------------------------------------------------------------
(* _calc_totals as a function of its argument *)

\* the texts of a 'Unit Price' cell, with the price they hold in thousandths;
\* -1 marks a text that holds no number
PriceSamples ==
  {[text |-> PriceText, mills |-> 12500],
   [text |-> <<"1", ",", "2", "5", "0">>, mills |-> 1250000],
   [text |-> <<"1", ".", "2", "3", "4">>, mills |-> 1234],
   [text |-> <<"7">>, mills |-> 7000],
   [text |-> <<"N", "/", "A">>, mills |-> -1],
   [text |-> <<"$">>, mills |-> -1],
   [text |-> <<>>, mills |-> -1]}

\* the rows handed to _calc_totals: a unit price text or none, the two
\* quantities as integers or absent, and a field the function does not read
TotalsRows ==
  {Merge(Merge(Merge(u, r), q), [Title |-> <<"t">>]) :
     u \in Optional("Unit Price", {p.text : p \in PriceSamples}),
     r \in Optional("Requested Qty", {0, 5}),
     q \in Optional("Qty Available", {0, 3, 4})}

InitTotals ==
  /\ Idle
  /\ pc = "fn"
  /\ fnIn \in TotalsRows
  /\ fnOut = <<>>

\* out.append(_calc_totals(row)), main.py:284
ApplyTotals ==
  /\ pc = "fn"
  /\ fnOut' = calc_totals(fnIn)
  /\ pc' = "fn_done"
  /\ UNCHANGED << pipelineVars, fnIn >>

NextTotals == ApplyTotals

SpecTotals == InitTotals /\ [][NextTotals]_vars

TotalKeys == {"Total Price (Requested)", "Total Price (Available)"}

\* the regular expression of _money_to_float finds a number in a text exactly
\* when the text holds a digit
HoldsNumber(s) == \E i \in 1..Len(s) : s[i] \in Digits

\* C11: _calc_totals adds a total only to a row whose 'Unit Price' holds a
\* number; to a row without one it adds nothing but the requested-quantity
\* sentinel, and it never changes a field the row had.
C11_TotalsOnlyWithUnitPrice ==
  pc = "fn_done" =>
    /\ (TotalKeys \cap DOMAIN fnOut # {}) => HoldsNumber(TextOr(fnIn, "Unit Price"))
    /\ ~HoldsNumber(TextOr(fnIn, "Unit Price")) =>
         /\ Without(fnOut, {"Requested Qty"}) = Without(fnIn, {"Requested Qty"})
         /\ fnOut["Requested Qty"] =
              IF "Requested Qty" \in DOMAIN fnIn /\ fnIn["Requested Qty"] # 0
              THEN fnIn["Requested Qty"] ELSE 9999
    /\ \A k \in DOMAIN fnIn \ {"Requested Qty"} : fnOut[k] = fnIn[k]

\* C11 witness: a row whose unit price text holds no number came back with
\* the sentinel and without totals, although it had a quantity available
C11_Witness ==
  /\ pc = "fn_done"
  /\ "Unit Price" \in DOMAIN fnIn /\ fnIn["Unit Price"] = <<"N", "/", "A">>
  /\ "Qty Available" \in DOMAIN fnIn
  /\ "Requested Qty" \notin DOMAIN fnIn
  /\ fnOut["Requested Qty"] = 9999
  /\ TotalKeys \cap DOMAIN fnOut = {}

\* the price of a row in thousandths, by the table of PriceSamples
Mills(row) ==
  (CHOOSE p \in PriceSamples : p.text = TextOr(row, "Unit Price")).mills

\* m thousandths times the quantity q, to the nearest cent
NearestCent(m, q) == (m \div 10) * q + ((m % 10) * q + 5) \div 10

\* C12: when the unit price holds a number, the total requested is the unit
\* price times the requested quantity (9999 when the row gives none) and
\* the total available is the unit price times the quantity available,
\* each to the cent; without a quantity available that total is absent.
C12_TotalsAreProducts ==
  (pc = "fn_done" /\ Mills(fnIn) >= 0) =>
    /\ fnOut["Total Price (Requested)"] = NearestCent(Mills(fnIn), fnOut["Requested Qty"])
    /\ fnOut["Requested Qty"] =
         IF "Requested Qty" \in DOMAIN fnIn /\ fnIn["Requested Qty"] # 0
         THEN fnIn["Requested Qty"] ELSE 9999
    /\ IF "Qty Available" \in DOMAIN fnIn
       THEN fnOut["Total Price (Available)"] = NearestCent(Mills(fnIn), fnIn["Qty Available"])
       ELSE "Total Price (Available)" \notin DOMAIN fnOut

\* C12 witness: unit price 12.50, quantity available 4, no requested
\* quantity: 50.00 available and 124987.50 requested, in cents
C12_Witness ==
  /\ pc = "fn_done"
  /\ TextOr(fnIn, "Unit Price") = PriceText
  /\ "Requested Qty" \notin DOMAIN fnIn
  /\ "Qty Available" \in DOMAIN fnIn /\ fnIn["Qty Available"] = 4
  /\ fnOut["Total Price (Available)"] = 5000
  /\ fnOut["Total Price (Requested)"] = 12498750

-----------------------------------------------------------------------------
(* Listing Sniffer: products.py.  extract_parts_from_any_payload             *)

\* PART_RE = [A-Z0-9][A-Z0-9\-]{3,30}
Upper == {"A", "B", "C", "D", "E", "F", "G", "H", "I", "J", "K", "L", "M",
          "N", "O", "P", "Q", "R", "S", "T", "U", "V", "W", "X", "Y", "Z"}
PartHeadChars == Upper \cup Digits
PartTailChars == PartHeadChars \cup {"-"}
PartTailMin == 3
PartTailMax == 30

\* for cell in row[:5]
EarlyCells == 5

\* if len(parts) < 3: the raw text is scanned
ScanBelow == 3

\* bounds of the payloads drawn: rows of a payload, length of a raw text
MaxPayloadRows == 2
RawLen == 4

\* a pattern without the bound on the length and without the character classes
PartReAnyText(s) == s # <<>>

\* PART_RE.fullmatch(s)
PART_RE_fullmatch(s) ==
  /\ s # <<>>
  /\ Head(s) \in PartHeadChars
  /\ Len(s) - 1 >= PartTailMin /\ Len(s) - 1 <= PartTailMax
  /\ \A i \in 2..Len(s) : s[i] \in PartTailChars

RECURSIVE TailRun(_, _)
\* the greedy match of [A-Z0-9\-]{..n} at the head of s
TailRun(s, n) ==
  IF n > 0 /\ s # <<>> /\ Head(s) \in PartTailChars
  THEN <<Head(s)>> \o TailRun(Tail(s), n - 1) ELSE <<>>

RECURSIVE PartFindIterNoMinimum(_)
\* a scan that accepts a match of any length
PartFindIterNoMinimum(s) ==
  IF s = <<>> THEN {}
  ELSE IF Head(s) \in PartHeadChars
  THEN LET run == TailRun(Tail(s), PartTailMax)
       IN {<<Head(s)>> \o run}
            \cup PartFindIterNoMinimum(SubSeq(s, Len(run) + 2, Len(s)))
  ELSE PartFindIterNoMinimum(Tail(s))

RECURSIVE PartFindIter(_)
\* {m.group(0) for m in PART_RE.finditer(s)}: leftmost, greedy, not overlapping
PartFindIter(s) ==
  IF s = <<>> THEN {}
  ELSE IF Head(s) \in PartHeadChars
  THEN LET run == TailRun(Tail(s), PartTailMax)
       IN IF Len(run) >= PartTailMin
          THEN {<<Head(s)>> \o run} \cup PartFindIter(SubSeq(s, Len(run) + 2, Len(s)))
          ELSE PartFindIter(Tail(s))
  ELSE PartFindIter(Tail(s))

RECURSIVE DigitsOf(_)
\* str(n) of a natural number
DigitsOf(n) ==
  LET d == CHOOSE c \in Digits : DigitVal(c) = n % 10
  IN IF n < 10 THEN <<d>> ELSE DigitsOf(n \div 10) \o <<d>>

\* JSON values: a cell is a string [s |-> text] or a number [n |-> value];
\* a row is an array [cells |-> ...] or an object [obj |-> pairs]; a payload
\* is a text that is no JSON object [raw |-> text], an array of rows
\* [arr |-> rows] or an object [dict |-> pairs], a pair being <<key, value>>
\* and a value a cell or [list |-> rows]
StrCell(s) == [s |-> s]
NumCell(n) == [n |-> n]

\* str(cell)
PyStr(cell) == IF "s" \in DOMAIN cell THEN cell.s ELSE DigitsOf(cell.n)

\* the characters of the keys the model uses
KeyChars(k) ==
  CASE k = "data" -> <<"d", "a", "t", "a">>
    [] k = "aaData" -> <<"a", "a", "D", "a", "t", "a">>
    [] k = "rows" -> <<"r", "o", "w", "s">>
    [] k = "items" -> <<"i", "t", "e", "m", "s">>
    [] k = "part" -> <<"p", "a", "r", "t">>
    [] k = "p" -> <<"p">>
    [] k = "q" -> <<"q">>

RECURSIVE JoinTexts(_)
\* ",".join(texts)
JoinTexts(texts) ==
  IF texts = <<>> THEN <<>>
  ELSE IF Len(texts) = 1 THEN texts[1]
  ELSE texts[1] \o <<",">> \o JoinTexts(Tail(texts))

Quoted(t) == <<"\"">> \o t \o <<"\"">>

CellText(c) == IF "s" \in DOMAIN c THEN Quoted(c.s) ELSE DigitsOf(c.n)

PairsText(pairs, ValueText(_)) ==
  <<"{">> \o JoinTexts([i \in 1..Len(pairs) |->
                          Quoted(KeyChars(pairs[i][1])) \o <<":">> \o ValueText(pairs[i][2])])
          \o <<"}">>

RowText(row) ==
  IF "cells" \in DOMAIN row
  THEN <<"[">> \o JoinTexts([i \in 1..Len(row.cells) |-> CellText(row.cells[i])]) \o <<"]">>
  ELSE PairsText(row.obj, CellText)

RowsText(rows) ==
  <<"[">> \o JoinTexts([i \in 1..Len(rows) |-> RowText(rows[i])]) \o <<"]">>

DictValueText(v) == IF "list" \in DOMAIN v THEN RowsText(v.list) ELSE CellText(v)

\* payload_text: the body of the response as the server sent it
PayloadText(p) ==
  IF "raw" \in DOMAIN p THEN p.raw
  ELSE IF "arr" \in DOMAIN p THEN RowsText(p.arr)
  ELSE PairsText(p.dict, DictValueText)

\* the identifiers of one row of a container: the first cells of an array,
\* the values of an object
RowParts(row) ==
  LET texts == IF "cells" \in DOMAIN row
               THEN {Strip(PyStr(row.cells[i])) :
                       i \in 1..(IF Len(row.cells) < EarlyCells THEN Len(row.cells)
                                 ELSE EarlyCells)}
               ELSE {Strip(PyStr(row.obj[i][2])) : i \in 1..Len(row.obj)}
  IN {t \in texts : PART_RE_fullmatch(t)}

\* for key in ("data", "aaData", "rows"): if key in js and isinstance(js[key], list)
ContainerParts(pairs) ==
  UNION {UNION {RowParts(pairs[i][2].list[j]) : j \in 1..Len(pairs[i][2].list)} :
           i \in {k \in 1..Len(pairs) : /\ pairs[k][1] \in {"data", "aaData", "rows"}
                                        /\ "list" \in DOMAIN pairs[k][2]}}

\* if not parts: the string values of the object itself
TopLevelParts(pairs) ==
  {Strip(pairs[i][2].s) :
     i \in {k \in 1..Len(pairs) : /\ "s" \in DOMAIN pairs[k][2]
                                  /\ PART_RE_fullmatch(Strip(pairs[k][2].s))}}

\* an extractor without the scan of the raw text
extract_parts_structured_only(p) ==
  IF "dict" \in DOMAIN p
  THEN IF ContainerParts(p.dict) # {} THEN ContainerParts(p.dict)
       ELSE TopLevelParts(p.dict)
  ELSE {}

\* an extractor that scans the raw text whatever the structured parsing found
extract_parts_always_scan(p) ==
  (IF "dict" \in DOMAIN p
   THEN IF ContainerParts(p.dict) # {} THEN ContainerParts(p.dict)
        ELSE TopLevelParts(p.dict)
   ELSE {}) \cup PartFindIter(PayloadText(p))

\* extract_parts_from_any_payload; the list returned is taken as a set
extract_parts_from_any_payload(p) ==
  LET structured == IF "dict" \in DOMAIN p
                    THEN IF ContainerParts(p.dict) # {} THEN ContainerParts(p.dict)
                         ELSE TopLevelParts(p.dict)
                    ELSE {}
  IN IF Cardinality(structured) < ScanBelow
     THEN structured \cup PartFindIter(PayloadText(p))
     ELSE structured

\* the payloads drawn
AB1234 == <<"A", "B", "-", "1", "2", "3", "4">>
PayloadRows ==
  { [cells |-> <<StrCell(<<"x">>), StrCell(AB1234), NumCell(3)>>],
    [cells |-> <<StrCell(<<" ", "A", "B", "1", "2", " ">>), NumCell(12345),
                 StrCell(<<"Z", "Z", "Z", "9">>)>>],
    [cells |-> <<StrCell(<<"x">>), NumCell(1), NumCell(2), StrCell(<<"y">>),
                 StrCell(<<"A", "1", "2">>), StrCell(<<"B", "-", "7", "7", "7">>)>>],
    [cells |-> <<StrCell(<<"x", "A", "1", "2", "3">>), StrCell(<<"A", "1", "2">>)>>],
    [obj |-> <<<<"part", StrCell(AB1234)>>, <<"q", NumCell(7)>>>>] }

RowSeqs == SeqsUpTo(PayloadRows, MaxPayloadRows)

JsonPayloads ==
  {[arr |-> rs] : rs \in RowSeqs}
    \cup {[dict |-> <<<<k, [list |-> rs]>>>>] :
            k \in {"data", "aaData", "rows", "items"}, rs \in RowSeqs}
    \cup {[dict |-> <<<<"p", c>>, <<k, [list |-> rs]>>>>] :
            c \in {StrCell(<<"Z", "Z", "-", "0", "1">>), NumCell(7)},
            k \in {"data", "items"}, rs \in RowSeqs}

RunOf(c, n) == [i \in 1..n |-> c]

RawTexts ==
  SeqsUpTo({"A", "1", "-", "x", " "}, RawLen)
    \cup {RunOf("A", n) : n \in {PartTailMax, PartTailMax + 1, PartTailMax + 2,
                                 PartTailMax + 5, PartTailMax + 6}}
    \cup {<<"s", "e", "e", " ">> \o AB1234 \o <<" ", "n", "o", "w">>,
          <<"<", "b", ">">> \o AB1234 \o <<"<", "/", "b", ">", " ", "Q", "9", "9">>,
          <<"-", "-">> \o AB1234 \o <<"-", ";", "x">> \o AB1234}

Payloads == JsonPayloads \cup {[raw |-> t] : t \in RawTexts}

InitPayload == Idle /\ pc = "fn" /\ fnIn \in Payloads /\ fnOut = <<>>

ApplyExtract ==
  /\ pc = "fn"
  /\ fnOut' = extract_parts_from_any_payload(fnIn)
  /\ pc' = "fn_done"
  /\ UNCHANGED << pipelineVars, fnIn >>

NextPayload == ApplyExtract

SpecPayload == InitPayload /\ [][NextPayload]_vars

-----------------------------------------------------------------------------
(* Listing Sniffer: run_from_input_csv, log_network_with_variants,           *)
(* log_network                                                               *)

\* if len(all_parts) >= 50: break
EnoughParts == 50

\* bounds: rows of subcategories.csv, responses captured for one listing
MaxListings == 2
MaxResp == 2

\* the order of str in Python is the order of the code points
PyOrder == <<"-", "0", "1", "2", "3", "4", "5", "6", "7", "8", "9",
             "A", "B", "C", "D", "E", "F", "G", "H", "I", "J", "K", "L", "M",
             "N", "O", "P", "Q", "R", "S", "T", "U", "V", "W", "X", "Y", "Z">>
Ord(c) == CHOOSE i \in 1..Len(PyOrder) : PyOrder[i] = c

RECURSIVE StrLess(_, _)
\* a < b of two str
StrLess(a, b) ==
  IF b = <<>> THEN FALSE
  ELSE IF a = <<>> THEN TRUE
  ELSE IF Head(a) # Head(b) THEN Ord(Head(a)) < Ord(Head(b))
  ELSE StrLess(Tail(a), Tail(b))

RECURSIVE sorted_descending(_)
\* the identifiers from the greatest to the least
sorted_descending(S) ==
  IF S = {} THEN <<>>
  ELSE LET m == CHOOSE x \in S : \A y \in S \ {x} : StrLess(y, x)
       IN <<m>> \o sorted_descending(S \ {m})

RECURSIVE sorted(_)
\* sorted(all_parts)
sorted(S) ==
  IF S = {} THEN <<>>
  ELSE LET m == CHOOSE x \in S : \A y \in S \ {x} : StrLess(x, y)
       IN <<m>> \o sorted(S \ {m})

RECURSIVE CollectScanNoCap(_, _, _, _, _)
\* a loop over the responses that never stops early
CollectScanNoCap(resps, i, unreadable, all_parts, read) ==
  IF i = 0 THEN [all_parts |-> all_parts, read |-> read]
  ELSE IF i \in unreadable
  THEN CollectScanNoCap(resps, i - 1, unreadable, all_parts, Append(read, i))
  ELSE CollectScanNoCap(resps, i - 1, unreadable,
                        all_parts \cup extract_parts_from_any_payload(resps[i]),
                        Append(read, i))

RECURSIVE CollectScan(_, _, _, _, _)
\* products.py:333-350: the responses from the last to the first, one whose
\* text cannot be read skipped, until 50 identifiers are held; read is the
\* positions on which resp.text() was called, in the order of the calls
CollectScan(resps, i, unreadable, all_parts, read) ==
  IF i = 0 THEN [all_parts |-> all_parts, read |-> read]
  ELSE IF i \in unreadable
  THEN CollectScan(resps, i - 1, unreadable, all_parts, Append(read, i))
  ELSE LET more == all_parts \cup extract_parts_from_any_payload(resps[i])
       IN IF Cardinality(more) >= EnoughParts
          THEN [all_parts |-> more, read |-> Append(read, i)]
          ELSE CollectScan(resps, i - 1, unreadable, more, Append(read, i))

\* all_parts when the loop over the responses ends
CollectParts(resps, i, unreadable, all_parts) ==
  CollectScan(resps, i, unreadable, all_parts, <<>>).all_parts

\* the rows of subcategories.csv drawn: with and without a category, and one
\* whose subcategory_url is blank
Listings ==
  { [category_url |-> "c", subcategory_name |-> "n", subcategory_url |-> "u1"],
    [category_url |-> "", subcategory_name |-> "", subcategory_url |-> "u2"],
    [category_url |-> "c", subcategory_name |-> "n", subcategory_url |-> ""] }

\* the payloads a listing page answers with: a table of rows, a text with
\* three identifiers, a text with none
SniffPayloads ==
  { [dict |-> <<<<"data", [list |-> <<[cells |-> <<StrCell(<<"x">>), StrCell(AB1234),
                                                    NumCell(3)>>]>>]>>>>],
    [raw |-> <<"Z", "9", "-", "1", " ", "A", "B", "1", "2", " ">> \o AB1234],
    [raw |-> <<"n", "o", "n", "e">>] }

\* the responses that may be captured while the page is driven or waited on
Captured(sofar) == SeqsUpTo(SniffPayloads, MaxResp - Len(sofar))

\* for part in parts_sorted: product_list.append({...})
ProductList(row, parts_sorted) ==
  [k \in 1..Len(parts_sorted) |->
     [category_url |-> IF row.category_url # "" THEN row.category_url
                       ELSE row.subcategory_url,
      subcategory_name |-> IF row.subcategory_name # "" THEN row.subcategory_name
                           ELSE "h1",
      subcategory_url |-> row.subcategory_url,
      PART_NO |-> parts_sorted[k]]]

InitSniff ==
  /\ Stage4AtRest
  /\ fnIn = <<>> /\ fnOut = <<>>
  /\ csv \in {<<>>, <<CsvRow(A)>>}
  /\ limit \in {NoLimit, 1}
  /\ subcats \in SeqsUpTo(Listings, MaxListings)
  /\ seconds \in {0, 20}
  /\ pc = "s3_start"
  /\ browserOpen = FALSE
  /\ last_err = ""
  /\ err = ""
  /\ row_i = 1
  /\ sniffVariant = 1
  /\ responses = <<>>
  /\ products = <<>>
  /\ waits = 0

sniffRest == << orphan, resume, clear, log, variantIdx, maxAttempts, loginAttempt, idx, processed,
                results, new_rows, returned, navVars, ghostVars, fnVars >>

\* run_from_input_csv, products.py:471-478: the output is removed and
\* written anew with its header
S3Start ==
  /\ pc = "s3_start"
  /\ csv' = <<>>
  /\ row_i' = 1
  /\ pc' = "s3_loop"
  /\ UNCHANGED << sniffRest, limit, subcats, seconds, sniffVariant, responses,
                  products, waits, browserOpen, last_err, err >>

\* the rows are exhausted, or i > limit
S3LoopEnd ==
  /\ pc = "s3_loop"
  /\ \/ row_i > Len(subcats)
     \/ limit # NoLimit /\ row_i > limit
  /\ pc' = "s3_done"
  /\ UNCHANGED << sniffRest, csv, limit, subcats, seconds, row_i, sniffVariant,
                  responses, products, waits, browserOpen, last_err, err >>

\* if not sub_url: continue
S3SkipBlank ==
  /\ pc = "s3_loop"
  /\ row_i <= Len(subcats)
  /\ limit = NoLimit \/ row_i <= limit
  /\ subcats[row_i].subcategory_url = ""
  /\ row_i' = row_i + 1
  /\ UNCHANGED << sniffRest, csv, limit, subcats, seconds, pc, sniffVariant,
                  responses, products, waits, browserOpen, last_err, err >>

\* products = log_network_with_variants(...)
S3Call ==
  /\ pc = "s3_loop"
  /\ row_i <= Len(subcats)
  /\ limit = NoLimit \/ row_i <= limit
  /\ subcats[row_i].subcategory_url # ""
  /\ sniffVariant' = 1
  /\ last_err' = ""
  /\ pc' = "s3_variant"
  /\ UNCHANGED << sniffRest, csv, limit, subcats, seconds, row_i, responses,
                  products, waits, browserOpen, err >>

\* for v in variants: log_network(..., variant=v) opens a session
S3Variant ==
  /\ pc = "s3_variant"
  /\ sniffVariant <= NumVariants
  /\ browserOpen' = TRUE
  /\ responses' = <<>>
  /\ waits' = 0
  /\ pc' = "s3_goto"
  /\ UNCHANGED << sniffRest, csv, limit, subcats, seconds, row_i, sniffVariant,
                  products, last_err, err >>

\* if last_err: raise last_err, which run_from_input_csv does not catch
S3AllVariantsFailed ==
  /\ pc = "s3_variant"
  /\ sniffVariant > NumVariants
  /\ err' = last_err
  /\ pc' = "exc"
  /\ UNCHANGED << sniffRest, csv, limit, subcats, seconds, row_i, sniffVariant,
                  responses, products, waits, browserOpen, last_err >>

\* goto_with_retry and trigger_wdatatable succeed; responses may arrive
S3GotoOk ==
  /\ pc = "s3_goto"
  /\ \E got \in Captured(responses) : responses' = responses \o got
  /\ pc' = "s3_window"
  /\ UNCHANGED << sniffRest, csv, limit, subcats, seconds, row_i, sniffVariant,
                  products, waits, browserOpen, last_err, err >>

\* goto_with_retry raises after its tries: finally closes the session and
\* log_network_with_variants keeps the error and takes the next variant
S3GotoFail ==
  /\ pc = "s3_goto"
  /\ browserOpen' = FALSE
  /\ last_err' = "goto"
  /\ sniffVariant' = sniffVariant + 1
  /\ pc' = "s3_variant"
  /\ UNCHANGED << sniffRest, csv, limit, subcats, seconds, row_i, responses,
                  products, waits, err >>

\* page.wait_for_timeout(max_wait_ms)
S3Window ==
  /\ pc = "s3_window"
  /\ \E got \in Captured(responses) : responses' = responses \o got
  /\ waits' = waits + 1
  /\ pc' = "s3_extend"
  /\ UNCHANGED << sniffRest, csv, limit, subcats, seconds, row_i, sniffVariant,
                  products, browserOpen, last_err, err >>

\* if len(responses) == 0 and seconds > 0: page.wait_for_timeout(seconds * 1000)
S3Extend ==
  /\ pc = "s3_extend"
  /\ IF Len(responses) = 0 /\ seconds > 0
     THEN /\ \E got \in Captured(responses) : responses' = responses \o got
          /\ waits' = waits + 1
     ELSE UNCHANGED << responses, waits >>
  /\ pc' = "s3_check"
  /\ UNCHANGED << sniffRest, csv, limit, subcats, seconds, row_i, sniffVariant,
                  products, browserOpen, last_err, err >>

\* a log_network that raises when no response was captured
S3NoResponseRaises ==
  /\ pc = "s3_check"
  /\ Len(responses) = 0
  /\ browserOpen' = FALSE
  /\ last_err' = "no_ajax"
  /\ sniffVariant' = sniffVariant + 1
  /\ pc' = "s3_variant"
  /\ UNCHANGED << sniffRest, csv, limit, subcats, seconds, row_i, responses,
                  products, waits, err >>

\* if len(responses) == 0: return [], the session closed by finally
S3NoResponse ==
  /\ pc = "s3_check"
  /\ Len(responses) = 0
  /\ products' = <<>>
  /\ browserOpen' = FALSE
  /\ pc' = "s3_returned"
  /\ UNCHANGED << sniffRest, csv, limit, subcats, seconds, row_i, sniffVariant,
                  responses, waits, last_err, err >>

\* products.py:330-411: the identifiers of the responses, sorted, made into
\* rows and appended to the output; return [] when there are none
S3Parse ==
  /\ pc = "s3_check"
  /\ Len(responses) # 0
  /\ \E unreadable \in SUBSET (1..Len(responses)) :
       LET all_parts == CollectParts(responses, Len(responses), unreadable, {})
           product_list == ProductList(subcats[row_i], sorted(all_parts))
       IN /\ products' = product_list
          /\ csv' = csv \o product_list
  /\ browserOpen' = FALSE
  /\ pc' = "s3_returned"
  /\ UNCHANGED << sniffRest, limit, subcats, seconds, row_i, sniffVariant,
                  responses, waits, last_err, err >>

\* back in run_from_input_csv: a warning when products is empty, next row
S3Returned ==
  /\ pc = "s3_returned"
  /\ row_i' = row_i + 1
  /\ pc' = "s3_loop"
  /\ UNCHANGED << sniffRest, csv, limit, subcats, seconds, sniffVariant,
                  responses, products, waits, browserOpen, last_err, err >>

NextSniff ==
  \/ S3Start \/ S3LoopEnd \/ S3SkipBlank \/ S3Call \/ S3Variant
  \/ S3AllVariantsFailed \/ S3GotoOk \/ S3GotoFail \/ S3Window \/ S3Extend
  \/ S3NoResponse \/ S3Parse \/ S3Returned

SpecSniff == InitSniff /\ [][NextSniff]_vars

\* the shape the specification gives: a leading upper-case letter or digit,
\* then 3 to 30 upper-case letters, digits or hyphens
IsPartToken(t) ==
  /\ Len(t) \in 4..31
  /\ t[1] \in Upper \cup Digits
  /\ \A i \in 2..Len(t) : t[i] \in Upper \cup Digits \cup {"-"}

\* C15: every identifier extract_parts_from_any_payload returns, from the
\* structured reading or from the scan of the raw text, has the identifier
\* shape in full.
C15_EveryPartHasTheShape ==
  pc = "fn_done" => \A t \in fnOut : IsPartToken(t)

C15_Witness ==
  /\ pc = "fn_done"
  /\ "dict" \in DOMAIN fnIn
  /\ ContainerParts(fnIn.dict) # {}
  /\ fnOut \ ContainerParts(fnIn.dict) # {}

\* the rows of a payload that are arrays, at the top level or under one of the
\* three keys
ArrayRows(p) ==
  LET lists == IF "arr" \in DOMAIN p THEN {p.arr}
               ELSE IF "dict" \in DOMAIN p
               THEN {p.dict[i][2].list :
                       i \in {k \in 1..Len(p.dict) :
                                /\ p.dict[k][1] \in {"data", "aaData", "rows"}
                                /\ "list" \in DOMAIN p.dict[k][2]}}
               ELSE {}
  IN UNION {{l[j].cells : j \in {k \in 1..Len(l) : "cells" \in DOMAIN l[k]}} : l \in lists}

\* C16: of a JSON payload whose rows are arrays, every cell among the first
\* five of a row that has the identifier shape is returned, and the value of
\* a cell that has not the shape is not returned.
C16_EarlyCellsReturned ==
  pc = "fn_done" =>
    \A cells \in ArrayRows(fnIn) : \A i \in 1..Len(cells) :
      LET v == PyStr(cells[i])
      IN /\ (i <= 5 /\ IsPartToken(v)) => v \in fnOut
         /\ ~IsPartToken(v) => v \notin fnOut

C16_Witness ==
  /\ pc = "fn_done"
  /\ "dict" \in DOMAIN fnIn
  /\ \E cells \in ArrayRows(fnIn) :
       /\ Len(cells) = 3
       /\ cells[1] = StrCell(<<"x">>) /\ cells[2] = StrCell(AB1234) /\ cells[3] = NumCell(3)
  /\ AB1234 \in fnOut
  /\ <<"x">> \notin fnOut /\ <<"3">> \notin fnOut

\* the maximal stretches of letters, digits and hyphens of a text, as pairs
\* of positions
Stretches(s) ==
  LET In(i) == s[i] \in Upper \cup Digits \cup {"-"}
  IN {<<i, j>> \in (1..Len(s)) \X (1..Len(s)) :
        /\ i <= j
        /\ \A k \in i..j : In(k)
        /\ (i = 1 \/ ~In(i - 1))
        /\ (j = Len(s) \/ ~In(j + 1))}

\* C17: of a payload that is no JSON object, the result is found by scanning
\* the raw text: every maximal stretch of identifier characters gives, from
\* its first letter or digit, the identifier it holds (its first 31
\* characters when it is longer), and every identifier returned is a piece
\* of the text.
C17_RawScanFindsEmbedded ==
  (pc = "fn_done" /\ "raw" \in DOMAIN fnIn) =>
    LET s == fnIn.raw
    IN /\ \A st \in Stretches(s) :
            LET heads == {k \in st[1]..st[2] : s[k] # "-"}
            IN heads # {} =>
                 LET k == CHOOSE h \in heads : \A g \in heads : h <= g
                     n == st[2] - k + 1
                 IN n >= 4 => SubSeq(s, k, IF n > 31 THEN k + 30 ELSE st[2]) \in fnOut
       /\ \A t \in fnOut :
            /\ IsPartToken(t)
            /\ \E i \in 1..Len(s) : i + Len(t) - 1 <= Len(s) /\ SubSeq(s, i, i + Len(t) - 1) = t

C17_Witness ==
  /\ pc = "fn_done"
  /\ "raw" \in DOMAIN fnIn
  /\ fnIn.raw = <<"s", "e", "e", " ">> \o AB1234 \o <<" ", "n", "o", "w">>
  /\ fnOut = {AB1234}

\* C13: when the listening window and its one extension pass with no
\* matching response captured, log_network returns the empty list, no
\* exception is raised, nothing is written, and run_from_input_csv takes
\* the next listing.
C13_NoResponseGivesEmptyAndContinues ==
  [][(pc = "s3_check" /\ Len(responses) = 0) =>
       /\ pc' = "s3_returned"
       /\ products' = <<>>
       /\ err' = "" /\ csv' = csv
       /\ ~browserOpen'
       /\ row_i' = row_i
       /\ waits = (IF seconds > 0 THEN 2 ELSE 1)]_vars
    /\ [][pc = "s3_returned" => (pc' = "s3_loop" /\ row_i' = row_i + 1 /\ err' = "")]_vars

C13_Witness ==
  /\ pc = "s3_loop" /\ row_i = 2 /\ Len(subcats) = 2
  /\ subcats[2].subcategory_url # ""
  /\ responses = <<>> /\ waits = 2 /\ products = <<>>
  /\ err = "" /\ csv = <<>>

\* C14: the identifiers log_network returns, which are the rows it appends
\* to the products CSV, are in strictly ascending order of str, so none is
\* repeated.
C14_ReturnedSortedNoDuplicates ==
  pc = "s3_returned" =>
    /\ \A k \in 1..(Len(products) - 1) :
         StrLess(products[k].PART_NO, products[k + 1].PART_NO)
    /\ Len(csv) >= Len(products)
    /\ SubSeq(csv, Len(csv) - Len(products) + 1, Len(csv)) = products

C14_Witness ==
  /\ pc = "s3_returned"
  /\ Len(responses) = 2
  /\ [k \in 1..Len(products) |-> products[k].PART_NO] =
       <<AB1234, <<"A", "B", "1", "2">>, <<"Z", "9", "-", "1">>>>

\* the positions of a call in the trace of the navigator
CallPositions(name) == {i \in 1..Len(calls) : calls[i] = name}

\* C18: in the inline flow both reads of the quantity available, by
\* extract_quote_table_and_qty_from_detail_view and by
\* extract_product_meta_from_detail, come after the quantity was set to 9999
\* and the update control invoked, and the record returned holds the
\* quantity shown after the update, not the one shown before it.
C18_QuantityReadAfterUpdate ==
  (pc = "collected" /\ navInfo.mode = "inline") =>
    /\ Cardinality(CallPositions("fill_qty_9999")) = 1
    /\ Cardinality(CallPositions("click_update_qty")) = 1
    /\ \A f \in CallPositions("fill_qty_9999"), c \in CallPositions("click_update_qty") :
         /\ f < c
         /\ \A r \in CallPositions("extract_quote_table_and_qty_from_detail_view")
                       \cup CallPositions("extract_product_meta_from_detail") : c < r
    /\ CallPositions("extract_quote_table_and_qty_from_detail_view") # {}
    /\ CallPositions("extract_product_meta_from_detail") # {}
    /\ price_data["Qty Available"] = first_int(QtyText)[1]
    /\ price_data["Qty Available"] # first_int(QtyBefore)[1]

C18_Witness ==
  /\ pc = "collected" /\ navInfo.mode = "inline"
  /\ price_data["Qty Available"] = 4
  /\ price_data["Requested Qty"] = 9999
  /\ CallPositions("click_update_qty") # {}

-----------------------------------------------------------------------------
(* The merge of the inline flow as a function of its three sources           *)

\* the dicts with some of the keys, the values marked by their source
SourceDicts(keys, mark, qty) ==
  {[k \in S |-> IF k = "Qty Available" THEN qty ELSE <<mark>>] : S \in SUBSET keys}

\* what each extractor can return
MetaDicts == SourceDicts({"Title", "part_no", "Qty Available", "Image URL", "Unit Price"}, "m", 7)
PreMoreDicts == SourceDicts({"Unit Price", "Lbs", "Qty Available"}, "p", 4)
DetailsDicts == SourceDicts({"part_no", "Title", "Lbs", "Image URL"}, "d", 0)

InitMerge ==
  /\ Idle
  /\ pc = "fn"
  /\ fnIn \in MetaDicts \X PreMoreDicts \X DetailsDicts
  /\ fnOut = <<>>

ApplyMerge ==
  /\ pc = "fn"
  /\ fnOut' = InlineRecord(fnIn[1], fnIn[2], fnIn[3])
  /\ pc' = "fn_done"
  /\ UNCHANGED << pipelineVars, fnIn >>

NextMerge == ApplyMerge

SpecMerge == InitMerge /\ [][NextMerge]_vars

\* C19: the record of the inline flow holds every field that any of the
\* three sources holds; a field of the specifications page has its value, a
\* field of the snapshot taken before More Details that the specifications
\* page lacks has the snapshot's, and a field that only the live metadata
\* holds has the metadata's, the requested quantity being 9999.
C19_MergePrecedence ==
  pc = "fn_done" =>
    LET meta == fnIn[1]
        pre_more == fnIn[2]
        details_norm == fnIn[3]
    IN /\ DOMAIN fnOut = DOMAIN meta \cup DOMAIN pre_more \cup DOMAIN details_norm
                           \cup {"Requested Qty"}
       /\ \A k \in DOMAIN details_norm : fnOut[k] = details_norm[k]
       /\ \A k \in DOMAIN pre_more \ DOMAIN details_norm : fnOut[k] = pre_more[k]
       /\ \A k \in DOMAIN meta \ (DOMAIN pre_more \cup DOMAIN details_norm) :
            fnOut[k] = meta[k]
       /\ fnOut["Requested Qty"] = 9999

C19_Witness ==
  /\ pc = "fn_done"
  /\ {"Title", "Image URL"} \subseteq DOMAIN fnIn[1] \cap DOMAIN fnIn[3]
  /\ {"Unit Price", "Qty Available"} \subseteq DOMAIN fnIn[1] \cap DOMAIN fnIn[2]
  /\ "Lbs" \in DOMAIN fnIn[2] \cap DOMAIN fnIn[3]
  /\ fnOut["Title"] = <<"d">> /\ fnOut["Lbs"] = <<"d">>
  /\ fnOut["Unit Price"] = <<"p">> /\ fnOut["Qty Available"] = 4

OpenBrowsers == (IF browserOpen THEN 1 ELSE 0) + (IF orphan THEN 1 ELSE 0)

\* C21: the session variants are attempted one at a time in their order: at
\* every moment of Stage 4 at most one browser is open, a login attempt and
\* a variant are started with no browser open, and a variant after the first
\* is started only after a failure.
C21_OneSessionAtATime ==
  /\ OpenBrowsers <= 1
  /\ pc \in {"variant", "login"} => OpenBrowsers = 0
  /\ (pc = "variant" /\ variantIdx > 1) => last_err # ""

\* Stage 4 as a running program, on a products CSV of one row: whenever a
\* step of the code is possible, one is taken.  What the site answers is not
\* constrained.
InitLive ==
  /\ Init
  /\ Len(csv) = 1
  /\ limit = NoLimit
  /\ resume /\ ~clear

\* every step of Stage 4 but the append, which is always possible at
\* "collected" and leaves it
OtherSteps ==
  \/ StartStage4 \/ StartVariant \/ LoginAttempt \/ GoToPriceInquiry \/ LoopSkip
  \/ FillForm \/ NavEntry \/ NavDetailView \/ NavQtyUpdate \/ NavParseModal
  \/ NavInline \/ LoopEnd \/ StageExcept \/ AllVariantsFailed

SpecLive ==
  InitLive /\ [][Next]_vars /\ WF_vars(OtherSteps) /\ []<>(pc # "collected")

\* C22: Stage 4 always terminates: whatever the site does, and with a login
\* that never succeeds, run_stage4_with_variants under its default
\* configuration (LOGIN_MAX_ATTEMPTS = 0) eventually returns or raises.
C22_Stage4Terminates == [](maxAttempts = 0) => <>(pc \in {"done", "failed"})

\* C23: a listing whose navigation failed in every retry is skipped and the
\* batch goes on with the next listing: run_from_input_csv is never ended
\* by the navigation error.
C23_NavigationFailureSkipsListing == ~(pc = "exc" /\ err = "goto")

-----------------------------------------------------------------------------
(* iter_parts_from_csv alone, over short files and small limits *)

MaxIterRows == 3

IterFiles == SeqsUpTo({CsvRow(c) : c \in CsvCells}, MaxIterRows)

IterLimits == {NoLimit} \cup 0..(MaxIterRows - 1)

InitIter ==
  /\ Idle
  /\ pc = "fn"
  /\ fnIn \in [rows : IterFiles, lim : IterLimits]
  /\ fnOut = <<>>

\* list(iter_parts_from_csv(str(products_csv), limit=limit_parts_detail))
ApplyIter ==
  /\ pc = "fn"
  /\ fnOut' = iter_parts_from_csv(fnIn.rows, fnIn.lim)
  /\ pc' = "fn_done"
  /\ UNCHANGED << pipelineVars, fnIn >>

NextIter == ApplyIter

SpecIter == InitIter /\ [][NextIter]_vars

\* the rows of a file whose PART_NO is not blank, in file order
FilledRows(rows) == SelectSeq(rows, LAMBDA r : Strip(TextOr(r, "PART_NO")) # <<>>)

\* C24: for every limit L >= 0 the reader yields at most L items, none of
\* them with an empty identifier; with no limit it yields every row with an
\* identifier, in file order.
C24_AtMostLimitItems ==
  pc = "fn_done" =>
    /\ \A i \in 1..Len(fnOut) : fnOut[i].part_no # <<>>
    /\ fnIn.lim # NoLimit => Len(fnOut) <= fnIn.lim
    /\ fnIn.lim = NoLimit =>
         /\ Len(fnOut) = Len(FilledRows(fnIn.rows))
         /\ \A i \in 1..Len(fnOut) :
              fnOut[i].part_no = Strip(FilledRows(fnIn.rows)[i].PART_NO)

\* what the structured parsing of a payload finds: the identifiers of the
\* containers of a JSON object, or else those of its own string values
StructuredParts(p) ==
  IF "dict" \in DOMAIN p
  THEN IF ContainerParts(p.dict) # {} THEN ContainerParts(p.dict)
       ELSE TopLevelParts(p.dict)
  ELSE {}

\* the entire values of the cells and fields of a JSON object, as texts
FieldValues(p) ==
  IF "dict" \notin DOMAIN p THEN {}
  ELSE UNION {LET v == p.dict[i][2]
              IN IF "list" \in DOMAIN v
                 THEN UNION {IF "cells" \in DOMAIN v.list[j]
                             THEN {Strip(PyStr(v.list[j].cells[k])) :
                                     k \in 1..Len(v.list[j].cells)}
                             ELSE {Strip(PyStr(v.list[j].obj[k][2])) :
                                     k \in 1..Len(v.list[j].obj)} :
                             j \in 1..Len(v.list)}
                 ELSE {Strip(PyStr(v))} :
              i \in 1..Len(p.dict)}

\* C25: the raw text of a payload is scanned exactly when the structured
\* parsing found fewer than 3 identifiers; when it found 3 or more, the
\* result is the structured set, every member of it the entire value of a
\* cell or field.
C25_ScanOnlyBelowThree ==
  pc = "fn_done" =>
    /\ Cardinality(StructuredParts(fnIn)) >= 3 =>
         /\ fnOut = StructuredParts(fnIn)
         /\ fnOut \subseteq FieldValues(fnIn)
    /\ Cardinality(StructuredParts(fnIn)) < 3 =>
         fnOut = StructuredParts(fnIn) \cup PartFindIter(PayloadText(fnIn))

C25_Witness ==
  /\ pc = "fn_done"
  /\ Cardinality(StructuredParts(fnIn)) >= 3
  /\ PartFindIter(PayloadText(fnIn)) \ StructuredParts(fnIn) # {}
  /\ fnOut = StructuredParts(fnIn)

-----------------------------------------------------------------------------
(* The loop of log_network over the captured responses, alone *)

MaxCollect == 3

\* a table of n rows of five numeric cells, all different: base + 1 ..
\* base + 5 n
Table(base, n) ==
  [dict |-> <<<<"data",
               [list |-> [j \in 1..n |->
                            [cells |-> [k \in 1..5 |-> NumCell(base + 5 * (j - 1) + k)]]]]>>>>]

\* responses with 50, 45 and 5 identifiers, 5 that the larger tables hold
\* too, and none
CollectPayloads ==
  {Table(1000, 10), Table(1000, 9), Table(2000, 1), Table(1000, 1),
   [raw |-> <<"n", "o", "n", "e">>]}

InitCollect ==
  /\ Idle
  /\ pc = "fn"
  /\ \E resps \in SeqsUpTo(CollectPayloads, MaxCollect) :
       \E unreadable \in SUBSET (1..Len(resps)) :
         fnIn = [resps |-> resps, unreadable |-> unreadable]
  /\ fnOut = <<>>

\* for idx_resp, resp in enumerate(responses[::-1], start=1): ...
ApplyCollect ==
  /\ pc = "fn"
  /\ fnOut' = CollectScan(fnIn.resps, Len(fnIn.resps), fnIn.unreadable, {}, <<>>)
  /\ pc' = "fn_done"
  /\ UNCHANGED << pipelineVars, fnIn >>

NextCollect == ApplyCollect

SpecCollect == InitCollect /\ [][NextCollect]_vars

\* the identifiers of the last k responses captured that can be read
PartsOfLast(k) ==
  UNION {extract_parts_from_any_payload(fnIn.resps[i]) :
           i \in ((Len(fnIn.resps) - k + 1)..Len(fnIn.resps)) \ fnIn.unreadable}

\* C26: the responses are read from the last captured to the first, and the
\* reading stops as soon as 50 identifiers are held: no response captured
\* before the one that reached 50 is read, and when 50 is never reached
\* every response is read and every readable one parsed.
C26_ReverseOrderUntilFifty ==
  pc = "fn_done" =>
    LET n == Len(fnIn.resps)
        m == Len(fnOut.read)
    IN /\ \A k \in 1..m : fnOut.read[k] = n - k + 1
       /\ \A k \in 1..(m - 1) : Cardinality(PartsOfLast(k)) < 50
       /\ m < n => Cardinality(PartsOfLast(m)) >= 50
       /\ fnOut.all_parts = PartsOfLast(m)

C26_Witness ==
  /\ pc = "fn_done"
  /\ Len(fnIn.resps) = 3
  /\ fnIn.unreadable = {}
  /\ fnIn.resps[3] = Table(2000, 1) /\ fnIn.resps[2] = Table(1000, 9)
  /\ fnOut.read = <<3, 2>>
  /\ Cardinality(fnOut.all_parts) = 50

\* the calls of the inline extraction: the snapshot, the specifications page
\* and the live metadata
InlineExtraction ==
  CallPositions("extract_quote_table_and_qty_from_detail_view")
    \cup CallPositions("click_more_details")
    \cup CallPositions("extract_from_part_details_page")
    \cup CallPositions("extract_product_meta_from_detail")

\* the calls of the overlay branch: parse, dismiss, return to the form, delete
OverlayBranch ==
  <<"wait_modal_open", "parse_modal", "_close_modal", "return_to_quote_page",
    "delete_current_item">>

\* a check for the overlay made right after the call before, and earlier
\* than position p of the trace
CheckedAfter(before, p) ==
  \E w \in CallPositions("wait_modal_open") :
    /\ w < p
    /\ w > 1 /\ calls[w - 1] = before

\* C27: the navigator looks for the overlay before the inline panel is
\* opened, again after the panel was opened and the convergence wait made,
\* and again after the update of the quantity; whenever the overlay is found
\* open the result comes from the overlay branch (parse, dismiss, return to
\* the form, delete) and no inline extraction is made.
C27_OverlayCheckedThreeTimes ==
  /\ [](\A d \in CallPositions("detailView") :
          CheckedAfter("close_fancybox_if_present", d))
  /\ [](\A f \in CallPositions("fill_qty_9999") :
          CheckedAfter("wait_detail_or_modal", f))
  /\ [](\A x \in InlineExtraction : CheckedAfter("click_update_qty", x))
  /\ [](npc = "modal" => InlineExtraction = {})
  /\ [][npc = "modal" =>
         /\ npc' = "idle"
         /\ InlineExtraction' = {}
         /\ pc' = "collected" =>
              /\ navInfo'.mode = "overlay"
              /\ SubSeq(calls', Len(calls) + 1, Len(calls) + 5) = OverlayBranch]_vars

C27_Witness ==
  /\ pc = "collected"
  /\ navInfo.mode = "overlay"
  /\ CallPositions("click_update_qty") # {}
  /\ Cardinality(CallPositions("wait_modal_open")) = 4
  /\ InlineExtraction = {}

\* the records the inline flow gives when the specifications page gave
\* nothing: the live metadata, overridden by the snapshot
PartialRecords ==
  {InlineRecord(extract_product_meta_from_detail(raw_id, QtyShown(calls)),
                extract_quote_table_and_qty_from_detail_view(QtyShown(calls)),
                EmptyDict) : raw_id \in DeleteIds}

C29_FailedVariantWorkNotRepeated ==
  [][(resume /\ variantIdx > 1 /\ pc = "loop" /\ pc' = "nav")
       => extractCount[Queue[idx].part_no] = 0]_vars

\* the lines of the log that hold a JSON object
ObjectLines == SelectSeq(log, LAMBDA l : l.t = "object")

IsPrefix(f, g) == Len(f) <= Len(g) /\ SubSeq(g, 1, Len(f)) = f

\* C31: when every variant fails, Stage 4 raises after one attempt of each
\* configured variant, a variant being started once and left only by its
\* failure; and once Stage 4 has started no step, a failure least of all,
\* removes or rewrites a line of the log.
C31_AllFailKeepsTheLog ==
  /\ [](pc = "failed" => (variantIdx = NumVariants + 1 /\ last_err # ""))
  /\ [][variantIdx' # variantIdx =>
         \/ pc = "start"
         \/ pc = "exc" /\ pc' = "variant" /\ variantIdx' = variantIdx + 1]_vars
  /\ [][(pc = "variant" /\ pc' # "variant") =>
         \/ pc' = "login" /\ variantIdx <= NumVariants
         \/ pc' = "failed" /\ variantIdx > NumVariants]_vars
  /\ [][pc # "start" => IsPrefix(log, log')]_vars
  /\ [][pc = "exc" => log' = log]_vars

C31_Witness ==
  /\ pc = "failed"
  /\ ~resume
  /\ Len(log) = 2
  /\ last_err = "item"

-----------------------------------------------------------------------------
(* The log as a file: _jsonl_append followed by _jsonl_load *)

MaxLogLines == 2

\* records of the log
LogRows == {[part_no |-> A] @@ ("Qty Available" :> 4), [part_no |-> B]}

\* the lines a log may hold, each with its "\n"
LogLines ==
  {JsonLine(r) : r \in LogRows} \cup {[t |-> "blank"], [t |-> "invalid"], [t |-> "value"]}

\* the logs a run finds: whole lines, and after them what a write that was
\* interrupted by a crash left, if anything
LogFiles ==
  {f \o e : f \in SeqsUpTo(LogLines, MaxLogLines),
            e \in {<<>>} \cup {<<CutLine(r, w)>> : r \in LogRows, w \in BOOLEAN}}

InitLog ==
  /\ Idle
  /\ pc = "fn"
  /\ fnIn \in [file : LogFiles, rows : SeqsUpTo(LogRows, 2)]
  /\ fnOut = <<>>

\* _jsonl_append(partial_path, new_rows); ...; all_rows = _jsonl_load(partial_path)
ApplyLog ==
  /\ pc = "fn"
  /\ fnOut' = jsonl_load(jsonl_append(fnIn.file, fnIn.rows))
  /\ pc' = "fn_done"
  /\ UNCHANGED << pipelineVars, fnIn >>

NextLog == ApplyLog

SpecLog == InitLog /\ [][NextLog]_vars

\* the records of the whole lines of a file that hold a JSON object
WholeRecords(file) ==
  LET objs == SelectSeq(file, LAMBDA l : l.t = "object")
  IN [i \in 1..Len(objs) |-> objs[i].v]

\* C32: loading skips the blank lines, the lines that are no JSON (a last
\* line cut short by a crash among them) and the JSON values that are no
\* objects, and returns the other records unchanged in file order; the
\* records appended and then loaded are returned as they were appended.
C32_LoadToleratesDamage ==
  pc = "fn_done" =>
    /\ Len(fnOut) >= Len(fnIn.rows)
    /\ SubSeq(fnOut, Len(fnOut) - Len(fnIn.rows) + 1, Len(fnOut)) = fnIn.rows
    /\ IsPrefix(WholeRecords(fnIn.file), fnOut)

\* the normalized key of a record: the reference trimmed, and the location
\* trimmed, a location that is missing or blank being null
NormalizedKey(r) ==
  [reference |-> Strip(TextOr(r, "part_no")),
   location |-> IF "Location" \in DOMAIN r /\ Strip(r["Location"]) # <<>>
                THEN Strip(r["Location"]) ELSE <<>>]

\* C33: the output of dedupe_results holds no two records with the same
\* normalized key, and dedupe_results applied to its own output returns
\* the same records in the same order.
C33_DedupeIdempotentKeyUnique ==
  pc = "fn_done" =>
    /\ \A i, j \in 1..Len(fnOut) :
         NormalizedKey(fnOut[i]) = NormalizedKey(fnOut[j]) => i = j
    /\ dedupe_results(fnOut) = fnOut

C33_Witness ==
  /\ pc = "fn_done"
  /\ Len(fnIn) = 3 /\ Len(fnOut) = 2
  /\ fnIn[1]["part_no"] = A /\ fnIn[2]["part_no"] = <<Sp, "A">>
  /\ "Location" \notin DOMAIN fnIn[1]
  /\ "Location" \in DOMAIN fnIn[2] /\ fnIn[2]["Location"] = <<Sp>>
  /\ fnOut[1] = fnIn[2]
  /\ dedupe_results(fnOut) = fnOut

\* C34: login_with_retries hands a session over only when the login was
\* confirmed on it; with max_attempts = N > 0 it raises after exactly N
\* attempts that were not confirmed; and an attempt that was not confirmed
\* leaves no browser of its own open, neither the one it holds nor one it
\* launched, when the next attempt starts or the error is raised.
C34_LoginConfirmedOrClosed ==
  [][pc = "login" =>
       /\ pc' = "goto" => (browserOpen' /\ orphan' = orphan)
       /\ pc' = "exc" =>
            (err' = "login_failed" /\ maxAttempts > 0 /\ loginAttempt + 1 = maxAttempts)
       /\ (maxAttempts > 0 /\ loginAttempt + 1 < maxAttempts) => pc' # "exc"
       /\ pc' # "goto" => (~browserOpen' /\ orphan' = orphan)]_vars

-----------------------------------------------------------------------------
(* run_full_pipeline: the stages and the checks between them.  What a stage *)
(* does inside is the subject of the machines above; here a stage is one    *)
(* step that leaves its file or its value, or raises.                       *)

\* subcategories.csv and Products_ALL.csv as an earlier run left them
StaleSubcats == <<[subcategory_name |-> "n0", subcategory_url |-> "u0"]>>
StaleProducts == <<CsvRow(<<"O">>)>>

\* the rows parser_subcategory collects: one per href, none without a href
FreshListings ==
  { [subcategory_name |-> "n", subcategory_url |-> "u1"],
    [subcategory_name |-> "", subcategory_url |-> "u2"] }

ListingOutputs ==
  {s \in SeqsUpTo(FreshListings, MaxListings) :
     \A i, j \in 1..Len(s) : s[i].subcategory_url = s[j].subcategory_url => i = j}

\* the rows the sniffer stage may leave in Products_ALL.csv
SniffOutputs == SeqsUpTo({CsvRow(A), CsvRow(B)}, MaxRows)

\* the records Stage 4 may append to its log
Stage4Rows ==
  { [part_no |-> A] @@ ("Unit Price" :> <<"1">>),
    [part_no |-> A] @@ ("Unit Price" :> <<"2">>),
    [part_no |-> B] @@ ("Unit Price" :> <<"1">>) }

RECURSIVE TrimLoop(_, _, _)
\* main.py:622-625: rows.append(row); if i >= limit_subcategories: break
TrimLoop(rows, i, lim) ==
  IF rows = <<>> THEN <<>>
  ELSE <<Head(rows)>> \o (IF i >= lim THEN <<>> ELSE TrimLoop(Tail(rows), i + 1, lim))

\* main.py:618-629: the file is read, cut, and written with three columns,
\* category_url being empty in every row
TrimSubcategories(rows, lim) ==
  LET kept == TrimLoop(rows, 1, lim)
  IN [k \in 1..Len(kept) |->
        [category_url |-> "", subcategory_name |-> kept[k].subcategory_name,
         subcategory_url |-> kept[k].subcategory_url]]

NoWorkbook == [written |-> FALSE, rows |-> <<>>]

InitPipeline ==
  /\ orphan = FALSE
  /\ variantIdx = 1 /\ maxAttempts = 0 /\ loginAttempt = 0 /\ idx = 1
  /\ processed = {} /\ results = <<>> /\ new_rows = <<>> /\ returned = <<>>
  /\ npc = "idle" /\ calls = <<>> /\ price_data = EmptyDict /\ where = "closed"
  /\ navInfo = NavIdle /\ attemptLog0 = <<>> /\ submitted = {}
  /\ extractCount = ZeroCount /\ extractedNow = 0 /\ appendedNow = <<>>
  /\ seconds = 20 /\ row_i = 1 /\ sniffVariant = 1 /\ responses = <<>>
  /\ products = <<>> /\ waits = 0
  /\ browserOpen = FALSE /\ last_err = "" /\ err = ""
  /\ limit = NoLimit
  /\ subcats \in {<<>>, StaleSubcats}
  /\ csv \in {<<>>, StaleProducts}
  /\ log \in {<<>>, jsonl_append(<<>>, <<[part_no |-> B] @@ ("Unit Price" :> <<"2">>)>>)}
  /\ resume \in BOOLEAN
  /\ clear \in BOOLEAN
  /\ fnIn \in [limit_subcategories : {NoLimit, 0, 1}]
  /\ fnOut = NoWorkbook
  /\ pc = "p_start"

pipeRest == << orphan, limit, resume, clear, variantIdx, maxAttempts, loginAttempt,
               browserOpen, idx, processed, new_rows, last_err, npc, price_data,
               where, navInfo, ghostVars, fnIn, seconds, row_i, sniffVariant,
               responses, products, waits >>

\* an exception leaves run_full_pipeline
PipelineRaise(kind) ==
  /\ pc' = "p_raised"
  /\ err' = kind

\* _run_parser_subcategory, main.py:609: parser_subcategory writes the file
\* once, after the listing page was read (category.py:264-267), or raises
\* and leaves the file as it was
RunParserSubcategory ==
  /\ pc = "p_start"
  /\ calls' = Append(calls, "stage2")
  /\ \/ /\ PipelineRaise("stage2")
        /\ UNCHANGED subcats
     \/ /\ subcats' \in ListingOutputs
        /\ pc' = "p_stage2_done"
        /\ UNCHANGED err
  /\ UNCHANGED << pipeRest, csv, log, returned, results, fnOut >>

\* main.py:611-629: sub_rows = _count_rows(...); raise on 0; the trim
ValidateStage2 ==
  /\ pc = "p_stage2_done"
  /\ IF Len(subcats) = 0
     THEN /\ PipelineRaise("0 subcategories")
          /\ UNCHANGED subcats
     ELSE /\ subcats' = IF fnIn.limit_subcategories # NoLimit
                        THEN TrimSubcategories(subcats, fnIn.limit_subcategories)
                        ELSE subcats
          /\ pc' = "p_stage3"
          /\ UNCHANGED err
  /\ UNCHANGED << pipeRest, csv, log, returned, results, calls, fnOut >>

\* run_from_input_csv, main.py:637-644: the output is written anew
\* (products.py:471-478) and holds what was captured when the stage
\* returns or raises
RunFromInputCsv ==
  /\ pc = "p_stage3"
  /\ calls' = Append(calls, "stage3")
  /\ csv' \in SniffOutputs
  /\ \/ PipelineRaise("stage3")
     \/ pc' = "p_stage3_done" /\ UNCHANGED err
  /\ UNCHANGED << pipeRest, subcats, log, returned, results, fnOut >>

\* a check of the sniffer stage that lets an empty file through
ValidateStage3NoGate ==
  /\ pc = "p_stage3_done"
  /\ pc' = "p_stage4"
  /\ UNCHANGED << pipeRest, err, subcats, csv, log, returned, results, calls, fnOut >>

\* main.py:646-652: parts_count = _count_parts(products_csv); raise on 0
ValidateStage3 ==
  /\ pc = "p_stage3_done"
  /\ IF count_parts(csv) = 0
     THEN PipelineRaise("0 PART_NO")
     ELSE pc' = "p_stage4" /\ UNCHANGED err
  /\ UNCHANGED << pipeRest, subcats, csv, log, returned, results, calls, fnOut >>

\* main.py:662-684: the partial log is removed or kept, and
\* run_stage4_with_variants appends to it and returns what it holds
\* (main.py:549-558), or raises when every variant failed
RunStage4WithVariants ==
  /\ pc = "p_stage4"
  /\ calls' = Append(calls, "stage4")
  /\ \E new \in SeqsUpTo(Stage4Rows, MaxRows) :
       /\ log' = jsonl_append(IF ClearsPartial(clear, resume) THEN <<>> ELSE log, new)
       /\ \/ /\ PipelineRaise("stage4")
             /\ UNCHANGED returned
          \/ /\ returned' = jsonl_load(log')
             /\ pc' = "p_dedupe"
             /\ UNCHANGED err
  /\ UNCHANGED << pipeRest, subcats, csv, results, fnOut >>

\* main.py:687: results = dedupe_results(results)
DedupeResults ==
  /\ pc = "p_dedupe"
  /\ calls' = Append(calls, "dedupe")
  /\ results' = dedupe_results(returned)
  /\ pc' = "p_export"
  /\ UNCHANGED << pipeRest, err, subcats, csv, log, returned, fnOut >>

\* main.py:690: save_costex_results_xlsx(results, out_dir=OUT_DIR)
SaveResultsXlsx ==
  /\ pc = "p_export"
  /\ calls' = Append(calls, "export")
  /\ fnOut' = [written |-> TRUE, rows |-> results]
  /\ pc' = "p_done"
  /\ UNCHANGED << pipeRest, err, subcats, csv, log, returned, results >>

NextPipeline ==
  \/ RunParserSubcategory \/ ValidateStage2 \/ RunFromInputCsv \/ ValidateStage3
  \/ RunStage4WithVariants \/ DedupeResults \/ SaveResultsXlsx

SpecPipeline == InitPipeline /\ [][NextPipeline]_vars

StageOrder == <<"stage2", "stage3", "stage4", "dedupe", "export">>

\* C35: run_full_pipeline starts its stages in one order: the listing
\* stage, the sniffer stage, Stage 4, deduplication, export.  The sniffer
\* stage is started only with at least one listing that the listing stage
\* of this run wrote; Stage 4 only with at least one identifier that the
\* sniffer stage of this run wrote; when a check fails the pipeline raises
\* and nothing is extracted, deduplicated or exported; and the workbook
\* holds the deduplicated records.
C35_StagesInOrderWithGates ==
  /\ [](/\ IsPrefix(calls, StageOrder)
        /\ Len(calls) >= 2 =>
             /\ subcats # <<>>
             /\ \A i \in 1..Len(subcats) :
                  subcats[i].subcategory_url \in {l.subcategory_url : l \in FreshListings}
        /\ Len(calls) >= 3 => (count_parts(csv) >= 1 /\ csv \in SniffOutputs)
        /\ Len(calls) < 3 => (returned = <<>> /\ results = <<>> /\ fnOut = NoWorkbook)
        /\ fnOut.written =>
             (calls = StageOrder /\ fnOut.rows = dedupe_results(jsonl_load(log))))
  /\ [][(pc = "p_stage2_done" /\ subcats = <<>>) => pc' = "p_raised"]_vars
  /\ [][(pc = "p_stage3_done" /\ count_parts(csv) = 0) => pc' = "p_raised"]_vars
  /\ [][pc # "p_raised"]_vars

C35_Witness ==
  /\ pc = "p_done"
  /\ calls = StageOrder
  /\ fnIn.limit_subcategories = 0 /\ Len(subcats) = 1
  /\ Len(returned) = 2 /\ Len(fnOut.rows) = 1
  /\ fnOut.rows[1]["Unit Price"] = <<"2">>

\* the last n calls of the navigator
LastCalls(n) == IF Len(calls) < n THEN <<>> ELSE SubSeq(calls, Len(calls) - n + 1, Len(calls))

\* C36: whenever open_detail_update_qty_and_collect has returned a record,
\* from the overlay branch or the inline branch, its last calls were, in
\* this order, return_to_quote_page (which returned, the entry form being
\* shown), delete_current_item, close_modal_if_present and
\* close_fancybox_if_present, and the session is on the entry form, not on
\* the detail or the specifications page.
C36_RecordOnlyAfterCleanup ==
  pc = "collected" =>
    /\ navInfo.mode \in {"overlay", "inline"}
    /\ LastCalls(4) = <<"return_to_quote_page", "delete_current_item",
                        "close_modal_if_present", "close_fancybox_if_present">>
    /\ where = "form"

C36_Witness ==
  /\ pc = "collected"
  /\ navInfo.mode = "inline"
  /\ CallPositions("extract_from_part_details_page") # {}
  /\ LastCalls(3) = <<"delete_current_item">> \o Dismiss
  /\ where = "form"

====
